---- MODULE Spec2Model ----
(***************************************************************************)
(* Model of the iyisiniye search API: the cache helpers (lib/cache.ts),    *)
(* the key-value backend they talk to (the redis client, as the test       *)
(* double of __tests__/setup.ts implements it), and the three cached       *)
(* routes (search, autocomplete, restaurant detail).                       *)
(*                                                                         *)
(* Conventions.  An optional value is a tuple of length 0 or 1: None is    *)
(* <<>> and Some(x) is <<x>>.  A JavaScript value is a record tagged by    *)
(* the field t.  A JavaScript object with known shape (a route's response) *)
(* is a TLA+ record wrapped by JsRec.  Time is in seconds.                 *)
(***************************************************************************)
EXTENDS Integers, Sequences, FiniteSets, TLC

None == <<>>
Some(x) == <<x>>
IsSome(o) == Len(o) = 1
Val(o) == o[1]

Range(s) == {s[i] : i \in 1..Len(s)}

\* const x = v; ...: the rest of a block, K, with x bound to the value v.
Bind(v, K(_)) == CHOOSE r \in {K(x) : x \in {v}} : TRUE

(***************************************************************************)
(* JavaScript values and JSON.                                             *)
(***************************************************************************)
JsNull == [t |-> "null"]
JsUndefined == [t |-> "undefined"]
JsNaN == [t |-> "nan"]
JsBool(b) == [t |-> "bool", b |-> b]
JsNum(n) == [t |-> "num", n |-> n]
JsStr(s) == [t |-> "str", s |-> s]
JsArr(xs) == [t |-> "arr", xs |-> xs]
JsObj(ps) == [t |-> "obj", ps |-> ps]
JsRec(r) == [t |-> "rec", r |-> r]
JsBigInt(n) == [t |-> "bigint", n |-> n]

\* JSON.stringify raises a TypeError on a BigInt anywhere in the value.
RECURSIVE StringifyRaises(_)
StringifyRaises(v) ==
  CASE v.t = "bigint" -> TRUE
    [] v.t = "arr" -> \E i \in 1..Len(v.xs) : StringifyRaises(v.xs[i])
    [] v.t = "obj" -> \E i \in 1..Len(v.ps) : StringifyRaises(v.ps[i][2])
    [] OTHER -> FALSE

\* The members of an object that JSON.stringify writes: a member whose
\* value is undefined is left out, the others keep their insertion order.
RECURSIVE KeptMembers(_)
KeptMembers(ps) ==
  IF ps = <<>> THEN <<>>
  ELSE IF ps[1][2].t = "undefined" THEN KeptMembers(Tail(ps))
       ELSE <<ps[1]>> \o KeptMembers(Tail(ps))

\* JSON.stringify of a value that is an element of an array or the value of
\* a kept member: undefined and NaN are written as null.
RECURSIVE JsonDoc(_)
JsonDoc(v) ==
  CASE v.t = "null" -> [j |-> "null"]
    [] v.t = "undefined" -> [j |-> "null"]
    [] v.t = "nan" -> [j |-> "null"]
    [] v.t = "bool" -> [j |-> "literal", b |-> v.b]
    [] v.t = "num" -> [j |-> "number", n |-> v.n]
    [] v.t = "str" -> [j |-> "string", s |-> v.s]
    [] v.t = "arr" -> [j |-> "array",
                       items |-> [i \in 1..Len(v.xs) |-> JsonDoc(v.xs[i])]]
    [] v.t = "obj" -> [j |-> "object",
                       members |-> LET ps == KeptMembers(v.ps)
                                   IN [i \in 1..Len(ps) |->
                                         <<ps[i][1], JsonDoc(ps[i][2])>>]]
    [] v.t = "rec" -> [j |-> "record", r |-> v.r]

JSONstringify(v) == JsonDoc(v)

RECURSIVE JSONparse(_)
JSONparse(d) ==
  CASE d.j = "null" -> JsNull
    [] d.j = "literal" -> JsBool(d.b)
    [] d.j = "number" -> JsNum(d.n)
    [] d.j = "string" -> JsStr(d.s)
    [] d.j = "array" -> JsArr([i \in 1..Len(d.items) |-> JSONparse(d.items[i])])
    [] d.j = "object" -> JsObj([i \in 1..Len(d.members) |->
                                  <<d.members[i][1], JSONparse(d.members[i][2])>>])
    [] d.j = "record" -> JsRec(d.r)

\* JavaScript truthiness of a parsed JSON value (the routes test `if (cached)`).
Truthy(v) ==
  CASE v.t = "null" -> FALSE
    [] v.t = "undefined" -> FALSE
    [] v.t = "nan" -> FALSE
    [] v.t = "bool" -> v.b
    [] v.t = "num" -> v.n # 0
    [] v.t = "str" -> v.s # ""
    [] OTHER -> TRUE

\* Deep equality as the tests' toEqual decides it: objects are equal when
\* they have the same members, whatever their order.
RECURSIVE DeepEqual(_, _)
DeepEqual(a, b) ==
  IF a.t # b.t THEN FALSE
  ELSE CASE a.t = "arr" ->
              /\ Len(a.xs) = Len(b.xs)
              /\ \A i \in 1..Len(a.xs) : DeepEqual(a.xs[i], b.xs[i])
         [] a.t = "obj" ->
              /\ {p[1] : p \in Range(a.ps)} = {p[1] : p \in Range(b.ps)}
              /\ \A p \in Range(a.ps) : \A q \in Range(b.ps) :
                   p[1] = q[1] => DeepEqual(p[2], q[2])
         [] OTHER -> a = b

(***************************************************************************)
(* The key-value backend: redis.get / redis.set / redis.del.               *)
(* A store is a function from the keys present to [value, expiry].         *)
(***************************************************************************)
EmptyStore == [k \in {} |-> 0]

Without(st, ks) == [k \in DOMAIN st \ ks |-> st[k]]

\* redis.get with the entry dropped from the instant of its expiry on.
RedisGet_ExpiresAtTtl(st, key, t) ==
  IF key \notin DOMAIN st THEN [data |-> None, store |-> st]
  ELSE IF IsSome(st[key].expiry) /\ t >= Val(st[key].expiry)
       THEN [data |-> None, store |-> Without(st, {key})]
       ELSE [data |-> Some(st[key].value), store |-> st]

\* redis.get: an entry past its expiry is dropped and reads as absent.
RedisGet(st, key, t) ==
  IF key \notin DOMAIN st THEN [data |-> None, store |-> st]
  ELSE IF IsSome(st[key].expiry) /\ t > Val(st[key].expiry)
       THEN [data |-> None, store |-> Without(st, {key})]
       ELSE [data |-> Some(st[key].value), store |-> st]

\* redis.set(key, value, "EX", ttl)
RedisSet(st, key, value, ttl, t) ==
  [k \in DOMAIN st \cup {key} |->
     IF k = key
     THEN [value |-> value, expiry |-> IF ttl # 0 THEN Some(t + ttl) ELSE None]
     ELSE st[k]]

\* redis.del(...keys)
RedisDel(st, ks) == Without(st, ks)

(***************************************************************************)
(* lib/cache.ts.  Every helper wraps its backend calls in try/catch.  A    *)
(* helper's result carries the new store and `raised`, which is TRUE when  *)
(* an exception leaves the helper.  `down` says that the backend raises on *)
(* every call.                                                             *)
(***************************************************************************)
\* The try block ending in `return JSON.parse(data) || null`.
CacheGetTry_FalsyIsNull(st, key, t, down) ==
  IF down THEN [raised |-> TRUE, value |-> JsNull, store |-> st]
  ELSE LET g == RedisGet(st, key, t)
       IN IF g.data = None \/ ~Truthy(JSONparse(Val(g.data)))
          THEN [raised |-> FALSE, value |-> JsNull, store |-> g.store]
          ELSE [raised |-> FALSE, value |-> JSONparse(Val(g.data)),
                store |-> g.store]

\* The body of cacheGet's try block.
CacheGetTry(st, key, t, down) ==
  IF down THEN [raised |-> TRUE, value |-> JsNull, store |-> st]
  ELSE LET g == RedisGet(st, key, t)
       IN IF g.data = None
          THEN [raised |-> FALSE, value |-> JsNull, store |-> g.store]
          ELSE [raised |-> FALSE, value |-> JSONparse(Val(g.data)),
                store |-> g.store]

\* catch { return null; }
CatchReturnNull(r) ==
  IF r.raised THEN [raised |-> FALSE, value |-> JsNull, store |-> r.store]
  ELSE r

\* cacheGet without its catch clause.
cacheGet_NoCatch(st, key, t, down) == CacheGetTry(st, key, t, down)

cacheGet(st, key, t, down) == CatchReturnNull(CacheGetTry(st, key, t, down))

\* The body of cacheSet's try block.
CacheSetTry(st, key, data, ttlSeconds, t, down) ==
  IF StringifyRaises(data) \/ down THEN [raised |-> TRUE, store |-> st]
  ELSE [raised |-> FALSE,
        store |-> RedisSet(st, key, JSONstringify(data), ttlSeconds, t)]

\* catch { }
CatchSilently(r) == [raised |-> FALSE, store |-> r.store]

\* cacheSet that never reaches the backend.
cacheSet_NoWrite(st, key, data, ttlSeconds, t, down) ==
  [raised |-> FALSE, store |-> st]

cacheSet(st, key, data, ttlSeconds, t, down) ==
  CatchSilently(CacheSetTry(st, key, data, ttlSeconds, t, down))

cacheDelete(st, key, down) ==
  CatchSilently(IF down THEN [raised |-> TRUE, store |-> st]
                ELSE [raised |-> FALSE, store |-> RedisDel(st, {key})])

\* Glob patterns used by the callers: "<prefix>:*".  A key is a tuple whose
\* first component is its prefix.
MatchesPattern(key, pattern) == key[1] = pattern

Min(a, b) == IF a < b THEN a ELSE b

\* The number of slots that one SCAN call of the backend walks.
ScanBatch == 2

\* The keyspace in the order in which the backend's cursor walks it.
Slots(st) ==
  CHOOSE s \in [1..Cardinality(DOMAIN st) -> DOMAIN st] :
    \A i, j \in DOMAIN s : i # j => s[i] # s[j]

\* redis.scan(cursor, "MATCH", pattern, "COUNT", 100): the matching keys
\* among the next slots, and the next cursor, 0 when the walk is complete.
RedisScan(st, slots, cursor, pattern) ==
  [cursor |-> IF cursor + ScanBatch >= Len(slots) THEN 0
              ELSE cursor + ScanBatch,
   keys |-> {slots[i] : i \in (cursor + 1)..Min(cursor + ScanBatch,
                                                Len(slots))}
            \cap {k \in DOMAIN st : MatchesPattern(k, pattern)}]

\* A single SCAN and DEL in place of the loop.
ScanLoop_Once(st, slots, cursor, pattern) ==
  RedisDel(st, RedisScan(st, slots, cursor, pattern).keys)

\* do { [cursor, keys] = scan(...); if (keys.length > 0) del(...keys) }
\* while (cursor !== "0")
RECURSIVE ScanLoop(_, _, _, _)
ScanLoop(st, slots, cursor, pattern) ==
  Bind(RedisScan(st, slots, cursor, pattern), LAMBDA scanned :
  Bind(IF scanned.keys # {} THEN RedisDel(st, scanned.keys) ELSE st,
       LAMBDA after :
    IF scanned.cursor # 0
    THEN ScanLoop(after, slots, scanned.cursor, pattern)
    ELSE after))

\* cacheDeletePattern: SCAN batches until the cursor is "0" again, deleting
\* each batch.  The backend raising on every call stops it at the first SCAN.
cacheDeletePattern(st, pattern, down) ==
  CatchSilently(
    IF down THEN [raised |-> TRUE, store |-> st]
    ELSE [raised |-> FALSE, store |-> ScanLoop(st, Slots(st), 0, pattern)])

(***************************************************************************)
(* Text.  A string is a sequence of one-character strings.                 *)
(***************************************************************************)
LowerOf(c) ==
  CASE c = "K" -> "k"
    [] c = "E" -> "e"
    [] OTHER -> c

toLowerCase(s) == [i \in 1..Len(s) |-> LowerOf(s[i])]

RECURSIVE TrimStart(_)
TrimStart(s) ==
  IF s # <<>> /\ s[1] = " " THEN TrimStart(Tail(s)) ELSE s

RECURSIVE TrimEnd(_)
TrimEnd(s) ==
  IF s # <<>> /\ s[Len(s)] = " " THEN TrimEnd(SubSeq(s, 1, Len(s) - 1)) ELSE s

trim(s) == TrimEnd(TrimStart(s))

(***************************************************************************)
(* Query strings.  A raw query is a sequence of <<name, raw value>> pairs  *)
(* in the order the client wrote them, names unique.  A raw value is       *)
(* [k |-> "text", s |-> characters] or [k |-> "int", n |-> integer] (the   *)
(* decimal numeral of n) or [k |-> "dec", n |-> natural, frac |-> 1..9]    *)
(* (the numeral "n.frac", a number that is not an integer).                *)
(***************************************************************************)
RawText(s) == [k |-> "text", s |-> s]
RawInt(n) == [k |-> "int", n |-> n]
RawDec(n, frac) == [k |-> "dec", n |-> n, frac |-> frac]

Names(entries) == {entries[i][1] : i \in 1..Len(entries)}
Has(entries, name) == name \in Names(entries)
Get(entries, name) ==
  entries[CHOOSE i \in 1..Len(entries) : entries[i][1] = name][2]

\* const { q, district, ... } = request.query: a missing member is None.
Field(entries, name) ==
  IF Has(entries, name) THEN Some(Get(entries, name)) ELSE None

\* SearchQuerySchema, member by member: TRUE when the raw value parses.
CuisineEnum ==
  {"turk", "kebap", "balik", "doner", "pide_lahmacun", "ev_yemekleri",
   "sokak_lezzetleri", "tatli_pasta", "kahvalti", "italyan", "uzakdogu",
   "fast_food", "vegan", "diger"}
SortByEnum == {"score", "distance", "newest"}

SearchNames ==
  {"q", "district", "cuisine", "price_range", "min_score", "sort_by",
   "page", "limit", "lat", "lng"}

\* The schema with limit written without its .max(50).
SearchMemberValid_NoUpperLimit(name, raw) ==
  CASE name = "q" -> raw.k = "text" /\ Len(raw.s) >= 2 /\ Len(raw.s) <= 100
    [] name = "district" -> raw.k = "text" /\ Len(raw.s) <= 100
    [] name = "cuisine" ->
         raw.k = "text" /\ raw.s \in {<<c>> : c \in CuisineEnum}
    [] name = "price_range" -> raw.k = "int" /\ raw.n >= 1 /\ raw.n <= 4
    [] name = "min_score" ->
         \/ raw.k = "int" /\ raw.n >= 1 /\ raw.n <= 10
         \/ raw.k = "dec" /\ raw.n >= 1 /\ raw.n < 10
    [] name = "sort_by" ->
         raw.k = "text" /\ raw.s \in {<<c>> : c \in SortByEnum}
    [] name = "page" -> raw.k = "int" /\ raw.n > 0
    [] name = "limit" -> raw.k = "int" /\ raw.n >= 1
    [] name = "lat" ->
         \/ raw.k = "int" /\ raw.n >= -90 /\ raw.n <= 90
         \/ raw.k = "dec" /\ raw.n < 90
    [] name = "lng" ->
         \/ raw.k = "int" /\ raw.n >= -180 /\ raw.n <= 180
         \/ raw.k = "dec" /\ raw.n < 180
    [] OTHER -> TRUE

SearchMemberValid(name, raw) ==
  CASE name = "q" -> raw.k = "text" /\ Len(raw.s) >= 2 /\ Len(raw.s) <= 100
    [] name = "district" -> raw.k = "text" /\ Len(raw.s) <= 100
    [] name = "cuisine" ->
         raw.k = "text" /\ raw.s \in {<<c>> : c \in CuisineEnum}
    [] name = "price_range" -> raw.k = "int" /\ raw.n >= 1 /\ raw.n <= 4
    [] name = "min_score" ->
         \/ raw.k = "int" /\ raw.n >= 1 /\ raw.n <= 10
         \/ raw.k = "dec" /\ raw.n >= 1 /\ raw.n < 10
    [] name = "sort_by" ->
         raw.k = "text" /\ raw.s \in {<<c>> : c \in SortByEnum}
    [] name = "page" -> raw.k = "int" /\ raw.n > 0
    [] name = "limit" -> raw.k = "int" /\ raw.n >= 1 /\ raw.n <= 50
    [] name = "lat" ->
         \/ raw.k = "int" /\ raw.n >= -90 /\ raw.n <= 90
         \/ raw.k = "dec" /\ raw.n < 90
    [] name = "lng" ->
         \/ raw.k = "int" /\ raw.n >= -180 /\ raw.n <= 180
         \/ raw.k = "dec" /\ raw.n < 180
    [] OTHER -> TRUE

\* A schema that lower-cases district while parsing it.
SearchMemberValue_LoweredDistrict(name, raw) ==
  IF name \in {"cuisine", "sort_by"} THEN raw.s[1]
  ELSE IF raw.k = "int" THEN raw.n
  ELSE IF raw.k = "dec" THEN [n |-> raw.n, frac |-> raw.frac]
  ELSE IF name = "district" THEN toLowerCase(raw.s)
  ELSE raw.s

\* The parsed member: z.coerce.number() members become numbers, enum
\* members their word, string members their text.
SearchMemberValue(name, raw) ==
  IF name \in {"cuisine", "sort_by"} THEN raw.s[1]
  ELSE IF raw.k = "int" THEN raw.n
  ELSE IF raw.k = "dec" THEN [n |-> raw.n, frac |-> raw.frac]
  ELSE raw.s

SearchQueryValid(rawQuery) ==
  /\ Has(rawQuery, "q")
  /\ \A i \in 1..Len(rawQuery) :
       SearchMemberValid(rawQuery[i][1], rawQuery[i][2])

\* Members the schema fills in when the client left them out.
SearchDefaults(rawQuery) ==
  (IF Has(rawQuery, "sort_by") THEN <<>> ELSE << <<"sort_by", "score">> >>)
  \o (IF Has(rawQuery, "page") THEN <<>> ELSE << <<"page", 1>> >>)
  \o (IF Has(rawQuery, "limit") THEN <<>> ELSE << <<"limit", 20>> >>)

RECURSIVE KnownMembers(_)
KnownMembers(rawQuery) ==
  IF rawQuery = <<>> THEN <<>>
  ELSE IF rawQuery[1][1] \in SearchNames
       THEN << <<rawQuery[1][1],
                 SearchMemberValue(rawQuery[1][1], rawQuery[1][2])>> >>
            \o KnownMembers(Tail(rawQuery))
       ELSE KnownMembers(Tail(rawQuery))

\* request.query after validation: the entries of the parsed object.  The
\* member order is the client's, defaults last; unknown members are dropped.
SearchQueryParse(rawQuery) == KnownMembers(rawQuery) \o SearchDefaults(rawQuery)

(***************************************************************************)
(* The search cache key:                                                   *)
(*   `search:${md5(JSON.stringify(Object.fromEntries(                      *)
(*        Object.entries(request.query).sort())))}`                        *)
(***************************************************************************)
\* The member names in the order of their UTF-16 code units.  sort() with no
\* comparator orders the entries by the text "name,value"; no name is a
\* prefix of another, so the names decide.
NameOrder ==
  <<"cuisine", "district", "lat", "limit", "lng", "min_score", "page",
    "price_range", "q", "sort_by">>

RECURSIVE SortByNames(_, _)
SortByNames(entries, names) ==
  IF names = <<>> THEN <<>>
  ELSE (IF Has(entries, names[1])
        THEN << <<names[1], Get(entries, names[1])>> >> ELSE <<>>)
       \o SortByNames(entries, Tail(names))

\* The entries left in the order of the parsed object.
EntriesSort_Unsorted(entries) == entries

EntriesSort(entries) == SortByNames(entries, NameOrder)

\* The JavaScript value of a parsed member.
MemberJs(name, v) ==
  IF name \in {"price_range", "min_score", "page", "limit", "lat", "lng"}
  THEN JsNum(v) ELSE JsStr(v)

ObjectFromEntries(entries) ==
  JsObj([i \in 1..Len(entries) |->
           <<entries[i][1], MemberJs(entries[i][1], entries[i][2])>>])

\* createHash("md5").update(text).digest("hex"), taken as collision free:
\* the digest of a text is a symbol that names the text.
Md5Hex(text) == [md5 |-> text]

\* A key derived from the search text alone.
SearchCacheKey_TextOnly(query) ==
  <<"search", Md5Hex(JSONstringify(JsStr(Get(query, "q"))))>>

SearchCacheKey(query) ==
  <<"search", Md5Hex(JSONstringify(ObjectFromEntries(EntriesSort(query))))>>

(***************************************************************************)
(* Storage.  `restaurants` is a function from venue id to its row and      *)
(* `foodScores` a set of dish-score rows.  A row of restaurants carries,   *)
(* besides its columns, what the storage engine's text search answers for  *)
(* it: `matches`, the normalised query texts that the full-text match or   *)
(* the trigram similarity (> 0.2) accepts, and `similarity`.  A location   *)
(* is a grid point in degrees plus an offset in metres.                    *)
(***************************************************************************)
Abs(x) == IF x < 0 THEN -x ELSE x

RadiusMetres == 10000

\* ST_Distance(location::geography, ST_MakePoint(lng, lat)::geography), in
\* metres: 111 km for each degree between the grid points, plus the offset.
ST_Distance(loc, lat, lng) ==
  111000 * (Abs(loc.lat - lat) + Abs(loc.lng - lng)) + loc.off

\* to_tsvector(...) @@ plainto_tsquery('turkish', unaccent(q))
\*   OR similarity(name, q) > 0.2
TextMatches(row, q) == trim(toLowerCase(q)) \in row.matches

\* One condition of the WHERE clause, evaluated on a row.  A comparison with
\* a NULL column is not true.
Holds(cond, row) ==
  CASE cond.p = "is_active" -> row.isActive
    [] cond.p = "text" -> TextMatches(row, cond.q)
    [] cond.p = "district" ->
         IsSome(row.district)
         /\ toLowerCase(Val(row.district)) = toLowerCase(cond.v)
    [] cond.p = "cuisine" -> cond.v \in row.cuisineType
    [] cond.p = "price_range" ->
         IsSome(row.priceRange) /\ Val(row.priceRange) = cond.v
    [] cond.p = "min_score" ->
         IsSome(row.overallScore) /\ Val(row.overallScore) >= cond.v * 100
    [] cond.p = "within" ->
         IsSome(row.location)
         /\ ST_Distance(Val(row.location), cond.lat, cond.lng) <= RadiusMetres

\* sql.join(conditions, sql` AND `)
WhereHolds(conditions, row) ==
  \A i \in 1..Len(conditions) : Holds(conditions[i], row)

\* The sequence of the elements of S in the strict total order Before.
SortSet(S, Before(_, _)) ==
  [i \in 1..Cardinality(S) |->
     CHOOSE x \in S : Cardinality({y \in S : Before(y, x)}) = i - 1]

\* The conditions array without its first element.
SearchConditions_NoActive(q, district, cuisine, price_range, min_score, lat, lng) ==
  << [p |-> "text", q |-> q] >>
  \o (IF IsSome(district) /\ Val(district) # <<>>
      THEN << [p |-> "district", v |-> Val(district)] >> ELSE <<>>)
  \o (IF IsSome(cuisine)
      THEN << [p |-> "cuisine", v |-> Val(cuisine)] >> ELSE <<>>)
  \o (IF IsSome(price_range) /\ Val(price_range) # 0
      THEN << [p |-> "price_range", v |-> Val(price_range)] >> ELSE <<>>)
  \o (IF IsSome(min_score) /\ Val(min_score) # 0
      THEN << [p |-> "min_score", v |-> Val(min_score)] >> ELSE <<>>)
  \o (IF IsSome(lat) /\ IsSome(lng)
      THEN << [p |-> "within", lat |-> Val(lat), lng |-> Val(lng)] >>
      ELSE <<>>)

\* The origin test written if (lat && lng): a coordinate of 0 is not seen.
SearchConditions_TruthyOrigin(q, district, cuisine, price_range, min_score, lat, lng) ==
  << [p |-> "is_active"], [p |-> "text", q |-> q] >>
  \o (IF IsSome(district) /\ Val(district) # <<>>
      THEN << [p |-> "district", v |-> Val(district)] >> ELSE <<>>)
  \o (IF IsSome(cuisine)
      THEN << [p |-> "cuisine", v |-> Val(cuisine)] >> ELSE <<>>)
  \o (IF IsSome(price_range) /\ Val(price_range) # 0
      THEN << [p |-> "price_range", v |-> Val(price_range)] >> ELSE <<>>)
  \o (IF IsSome(min_score) /\ Val(min_score) # 0
      THEN << [p |-> "min_score", v |-> Val(min_score)] >> ELSE <<>>)
  \o (IF IsSome(lat) /\ IsSome(lng) /\ Val(lat) # 0 /\ Val(lng) # 0
      THEN << [p |-> "within", lat |-> Val(lat), lng |-> Val(lng)] >>
      ELSE <<>>)

\* The conditions array of the search route.
SearchConditions(q, district, cuisine, price_range, min_score, lat, lng) ==
  << [p |-> "is_active"], [p |-> "text", q |-> q] >>
  \o (IF IsSome(district) /\ Val(district) # <<>>
      THEN << [p |-> "district", v |-> Val(district)] >> ELSE <<>>)
  \o (IF IsSome(cuisine)
      THEN << [p |-> "cuisine", v |-> Val(cuisine)] >> ELSE <<>>)
  \o (IF IsSome(price_range) /\ Val(price_range) # 0
      THEN << [p |-> "price_range", v |-> Val(price_range)] >> ELSE <<>>)
  \o (IF IsSome(min_score) /\ Val(min_score) # 0
      THEN << [p |-> "min_score", v |-> Val(min_score)] >> ELSE <<>>)
  \o (IF IsSome(lat) /\ IsSome(lng)
      THEN << [p |-> "within", lat |-> Val(lat), lng |-> Val(lng)] >>
      ELSE <<>>)

\* The score sort written without NULLS LAST: DESC puts nulls first.
SearchBefore_NullsFirst(R, sort_by, lat, lng, rank, a, b) ==
  LET tie == rank[a] < rank[b]
  IN CASE sort_by = "distance" ->
            LET da == ST_Distance(Val(R[a].location), Val(lat), Val(lng))
                db == ST_Distance(Val(R[b].location), Val(lat), Val(lng))
            IN da < db \/ (da = db /\ tie)
       [] sort_by = "newest" ->
            R[a].createdAt > R[b].createdAt
            \/ (R[a].createdAt = R[b].createdAt /\ tie)
       [] OTHER ->
            LET sa == R[a].overallScore
                sb == R[b].overallScore
            IN \/ ~IsSome(sa) /\ IsSome(sb)
               \/ IsSome(sa) /\ IsSome(sb) /\ Val(sa) > Val(sb)
               \/ IsSome(sa) /\ IsSome(sb) /\ Val(sa) = Val(sb) /\ tie
               \/ ~IsSome(sa) /\ ~IsSome(sb) /\ tie

\* ORDER BY of the search route.  Rows that the ORDER BY leaves equal come
\* in the order the storage engine happens to produce: `rank` (venue id ->
\* integer, injective) stands for it.
SearchBefore(R, sort_by, lat, lng, rank, a, b) ==
  LET tie == rank[a] < rank[b]
  IN CASE sort_by = "distance" ->
            LET da == ST_Distance(Val(R[a].location), Val(lat), Val(lng))
                db == ST_Distance(Val(R[b].location), Val(lat), Val(lng))
            IN da < db \/ (da = db /\ tie)
       [] sort_by = "newest" ->
            R[a].createdAt > R[b].createdAt
            \/ (R[a].createdAt = R[b].createdAt /\ tie)
       [] OTHER ->
            LET sa == R[a].overallScore
                sb == R[b].overallScore
            IN \/ IsSome(sa) /\ ~IsSome(sb)
               \/ IsSome(sa) /\ IsSome(sb) /\ Val(sa) > Val(sb)
               \/ IsSome(sa) /\ IsSome(sb) /\ Val(sa) = Val(sb) /\ tie
               \/ ~IsSome(sa) /\ ~IsSome(sb) /\ tie

\* The page query written without .offset(offset).
PageQuery_NoOffset(R, conditions, sort_by, lat, lng, limit, offset, rank) ==
  LET ids == {id \in DOMAIN R : WhereHolds(conditions, R[id])}
      LessThan(a, b) == SearchBefore(R, sort_by, lat, lng, rank, a, b)
      sorted == SortSet(ids, LessThan)
  IN SubSeq(sorted, 1, Min(limit, Len(sorted)))

\* .where(whereClause).orderBy(orderClause).limit(limit).offset(offset)
PageQuery(R, conditions, sort_by, lat, lng, limit, offset, rank) ==
  LET ids == {id \in DOMAIN R : WhereHolds(conditions, R[id])}
      LessThan(a, b) == SearchBefore(R, sort_by, lat, lng, rank, a, b)
      sorted == SortSet(ids, LessThan)
  IN SubSeq(sorted, offset + 1, Min(offset + limit, Len(sorted)))

\* select count(*) ... .where(whereClause)
CountQuery(R, conditions) ==
  Cardinality({id \in DOMAIN R : WhereHolds(conditions, R[id])})

\* select ... from food_scores where restaurant_id IN (ids) AND score IS NOT
\* NULL order by score desc; `drank` (row id -> integer, injective) orders
\* the rows of equal score.
TopDishesQuery(F, restaurantIds, drank) ==
  LET rows == {f \in F : f.restaurantId \in restaurantIds /\ IsSome(f.score)}
      LessThan(a, b) ==
        \/ Val(a.score) > Val(b.score)
        \/ Val(a.score) = Val(b.score) /\ drank[a.id] < drank[b.id]
  IN SortSet(rows, LessThan)

\* if (restaurantIds.length > 0)
TopDishesIssued(restaurantIds) == restaurantIds # {}

\* A Promise.all that settles with the first of its queries.
PromiseAllResolved_First(resolved, awaited) == resolved \cap awaited # {}

\* await Promise.all([...]) resumes once every awaited query has resolved.
PromiseAllResolved(resolved, awaited) == awaited \subseteq resolved

\* The ids of the page and of the venues next to them in the table.
PageIds_WithNeighbours(results) ==
  Range(results) \cup {id + 1 : id \in Range(results)}

\* const restaurantIds = results.map((r) => r.id)
PageIds(results) == Range(results)

\* existing.length <= 3
HasRoom_OffByOne(existing) == Len(existing) <= 3

\* existing.length < 3
HasRoom(existing) == Len(existing) < 3

\* for (const dish of topDishesResult) { ... }: the dishMap after the loop,
\* as a function from the venue ids that got a dish to their lists.
RECURSIVE GroupDishes(_, _)
GroupDishes(rows, dishMap) ==
  IF rows = <<>> THEN dishMap
  ELSE LET dish == rows[1]
           existing == IF dish.restaurantId \in DOMAIN dishMap
                       THEN dishMap[dish.restaurantId] ELSE <<>>
       IN IF HasRoom(existing)
          THEN GroupDishes(Tail(rows),
                 [id \in DOMAIN dishMap \cup {dish.restaurantId} |->
                    IF id = dish.restaurantId
                    THEN Append(existing,
                                [foodName |-> dish.foodName,
                                 score |-> Val(dish.score),
                                 reviewCount |-> dish.reviewCount])
                    ELSE dishMap[id]])
          ELSE GroupDishes(Tail(rows), dishMap)

EmptyMap == [id \in {} |-> <<>>]

\* Math.floor(total / limit)
MathCeilDiv_Floor(total, limit) == total \div limit

\* Math.ceil(total / limit)
MathCeilDiv(total, limit) ==
  IF total % limit = 0 THEN total \div limit ELSE (total \div limit) + 1

\* The pagination block (the search route and calculatePagination agree).
calculatePagination(total, page, limit) ==
  LET totalPages == MathCeilDiv(total, limit)
  IN [page |-> page, limit |-> limit, total |-> total,
      totalPages |-> totalPages,
      hasNext |-> page < totalPages,
      hasPrev |-> page > 1]

(***************************************************************************)
(* Route handlers.  A handler is an operator from the request and the      *)
(* state it reads to its outcome:                                          *)
(*   status, xcache (the X-Cache header, None when not set), body,         *)
(*   store (the cache after the request), queries (the storage queries     *)
(*   issued, in order) and writes (the cacheSet calls made).               *)
(***************************************************************************)
Outcome(status, xcache, body, st, queries, writes) ==
  [status |-> status, xcache |-> xcache, body |-> body, store |-> st,
   queries |-> queries, writes |-> writes, reads |-> <<>>]

\* The outcome of a handler that has called cacheGet(cacheKey).
Looked(cacheKey, out) == [out EXCEPT !.reads = <<cacheKey>>]

\* The reply of the framework when the schema rejects the request.
ValidationReply(st) ==
  Outcome(400, None,
          JsRec([statusCode |-> 400, error |-> "Bad Request",
                 message |-> "validation"]),
          st, <<>>, <<>>)

\* A handler that catches the error and replies with an empty result.
InternalErrorReply_EmptyResult(st, queries) ==
  Outcome(200, Some("MISS"), JsRec([data |-> <<>>]), st, queries, <<>>)

\* The reply of the framework when the handler throws.
InternalErrorReply(st, queries) ==
  Outcome(500, None,
          JsRec([statusCode |-> 500, error |-> "Internal Server Error",
                 message |-> "exception"]),
          st, queries, <<>>)

DistanceMessage == "Mesafeye gore siralama icin lat ve lng parametreleri gereklidir."

\* The check written with && in place of ||.
DistanceWithoutOrigin_BothMissing(sort_by, lat, lng) ==
  sort_by = "distance" /\ (~IsSome(lat) /\ ~IsSome(lng))

\* sort_by === "distance" && (lat == null || lng == null)
DistanceWithoutOrigin(sort_by, lat, lng) ==
  sort_by = "distance" /\ (~IsSome(lat) \/ ~IsSome(lng))

SearchTtl == 300
RestaurantTtl == 900

\* The autocomplete route written with the TTL of the search route.
AutocompleteTtl_AsSearch == SearchTtl

AutocompleteTtl == 3600

\* A storage failure swallowed instead of propagated.
Rejects_Swallowed(fails, awaited) == FALSE

\* await Promise.all([...]) raises when one of the awaited queries raises.
Rejects(fails, awaited) == fails \cap awaited # {}

\* The response object of a search that went to storage.  `fails` is the set
\* of the storage queries that raise; the page and the count query are
\* started together (Promise.all), the dish query after both have answered.
SearchResponse(R, F, query, rank, drank, fails) ==
  LET q == Get(query, "q")
      district == Field(query, "district")
      cuisine == Field(query, "cuisine")
      price_range == Field(query, "price_range")
      min_score == Field(query, "min_score")
      sort_by == Get(query, "sort_by")
      page == Get(query, "page")
      limit == Get(query, "limit")
      lat == Field(query, "lat")
      lng == Field(query, "lng")
      offset == (page - 1) * limit
      \* The ORDER BY of the distance sort takes lat and lng as parameters:
      \* the query raises when one of them is undefined.
      failed == \/ sort_by = "distance" /\ (~IsSome(lat) \/ ~IsSome(lng))
                \/ Rejects(fails, {"page", "count"})
  IN
  Bind(SearchConditions(q, district, cuisine, price_range, min_score, lat, lng),
       LAMBDA conditions :
  Bind(IF failed THEN <<>>
       ELSE PageQuery(R, conditions, sort_by, lat, lng, limit, offset, rank),
       LAMBDA results :
  Bind(CountQuery(R, conditions), LAMBDA total :
  Bind(PageIds(results), LAMBDA restaurantIds :
  Bind(GroupDishes(IF ~failed /\ TopDishesIssued(restaurantIds)
                   THEN TopDishesQuery(F, restaurantIds, drank) ELSE <<>>,
                   EmptyMap),
       LAMBDA dishMap :
  Bind(<< [table |-> "restaurants", select |-> "page", where |-> conditions,
           orderBy |-> sort_by, limit |-> limit, offset |-> offset],
          [table |-> "restaurants", select |-> "count", where |-> conditions] >>
       \o (IF ~failed /\ TopDishesIssued(restaurantIds)
           THEN << [table |-> "food_scores", select |-> "top_dishes",
                    restaurantIds |-> restaurantIds] >>
           ELSE <<>>),
       LAMBDA queries :
    IF failed \/ (TopDishesIssued(restaurantIds)
                 /\ Rejects(fails, {"top_dishes"}))
    THEN [raised |-> TRUE, response |-> JsNull, queries |-> queries]
    ELSE
      [raised |-> FALSE,
       response |->
         JsRec(
           [data |->
              [i \in 1..Len(results) |->
                 Bind(R[results[i]], LAMBDA r :
                   [id |-> results[i],
                    name |-> r.name,
                    slug |-> r.slug,
                    district |-> r.district,
                    cuisineType |-> r.cuisineType,
                    priceRange |-> r.priceRange,
                    overallScore |-> r.overallScore,
                    distance |->
                      IF IsSome(lat) /\ IsSome(lng) /\ IsSome(r.location)
                      THEN Some(ST_Distance(Val(r.location), Val(lat),
                                            Val(lng)))
                      ELSE None,
                    topDishes |-> IF results[i] \in DOMAIN dishMap
                                  THEN dishMap[results[i]] ELSE <<>>])],
            pagination |-> calculatePagination(total, page, limit),
            meta |-> [query |-> q,
                      appliedFilters |-> [district |-> district,
                                          cuisine |-> cuisine,
                                          priceRange |-> price_range,
                                          minScore |-> min_score],
                      sortBy |-> sort_by]]),
       queries |-> queries]))))))

\* GET /api/v1/search, with the storage queries of `fails` raising.
SearchHandlerOn(rawQuery, st, t, down, R, F, rank, drank, fails) ==
  IF ~SearchQueryValid(rawQuery) THEN ValidationReply(st)
  ELSE
    Bind(SearchQueryParse(rawQuery), LAMBDA query :
    Bind(SearchCacheKey(query), LAMBDA cacheKey :
    Looked(cacheKey,
    Bind(cacheGet(st, cacheKey, t, down), LAMBDA cached :
      IF cached.raised THEN InternalErrorReply(cached.store, <<>>)
      ELSE IF Truthy(cached.value)
      THEN Outcome(200, Some("HIT"), cached.value, cached.store, <<>>, <<>>)
      ELSE IF DistanceWithoutOrigin(Get(query, "sort_by"),
                                    Field(query, "lat"), Field(query, "lng"))
      THEN Outcome(400, None,
                   JsRec([statusCode |-> 400, error |-> "Bad Request",
                          message |-> DistanceMessage]),
                   cached.store, <<>>, <<>>)
      ELSE
        Bind(SearchResponse(R, F, query, rank, drank, fails), LAMBDA found :
          IF found.raised
          THEN InternalErrorReply(cached.store, found.queries)
          ELSE
            Bind(cacheSet(cached.store, cacheKey, found.response, SearchTtl,
                          t, down),
                 LAMBDA set :
              IF set.raised
              THEN InternalErrorReply(set.store, found.queries)
              ELSE Outcome(200, Some("MISS"), found.response, set.store,
                           found.queries,
                           << [key |-> cacheKey, ttl |-> SearchTtl] >>)))))))

\* GET /api/v1/search while storage answers every query.
SearchHandler(rawQuery, st, t, down, R, F, rank, drank) ==
  SearchHandlerOn(rawQuery, st, t, down, R, F, rank, drank, {})

\* RestaurantDetailParamsSchema: /^[a-z0-9]+(?:-[a-z0-9]+)*$/, 1..255 long.
SlugChars ==
  {"a", "b", "c", "d", "e", "f", "g", "h", "i", "j", "k", "l", "m", "n", "o",
   "p", "q", "r", "s", "t", "u", "v", "w", "x", "y", "z",
   "0", "1", "2", "3", "4", "5", "6", "7", "8", "9"}

\* The pattern without its anchors and separators: any run of the characters.
SlugValid_AnyRun(slug) ==
  /\ Len(slug) >= 1 /\ Len(slug) <= 255
  /\ \A i \in 1..Len(slug) : slug[i] \in SlugChars \cup {"-"}

SlugValid(slug) ==
  /\ Len(slug) >= 1 /\ Len(slug) <= 255
  /\ \A i \in 1..Len(slug) : slug[i] \in SlugChars \cup {"-"}
  /\ slug[1] # "-" /\ slug[Len(slug)] # "-"
  /\ \A i \in 1..(Len(slug) - 1) : ~(slug[i] = "-" /\ slug[i + 1] = "-")

RestaurantCacheKey(slug) == <<"restaurant", slug>>

\* select ... from food_scores where restaurant_id = id order by score desc
ScoresQuery(F, id, drank) ==
  LET rows == {f \in F : f.restaurantId = id}
      LessThan(a, b) ==
        \/ Val(a.score) > Val(b.score)
        \/ Val(a.score) = Val(b.score) /\ drank[a.id] < drank[b.id]
  IN SortSet(rows, LessThan)

\* GET /api/v1/restaurants/:slug, with the storage queries of `fails`
\* raising.  The body carries the restaurant and foodScores parts of the
\* response.  The query by slug is awaited first, the other four are
\* started together.
RestaurantHandlerOn(slug, st, t, down, R, F, drank, fails) ==
  IF ~SlugValid(slug) THEN ValidationReply(st)
  ELSE
    Bind(RestaurantCacheKey(slug), LAMBDA cacheKey :
    Looked(cacheKey,
    Bind(cacheGet(st, cacheKey, t, down), LAMBDA cached :
    Bind([table |-> "restaurants", select |-> "by_slug", slug |-> slug],
         LAMBDA bySlug :
    Bind({id \in DOMAIN R : R[id].slug = slug /\ R[id].isActive},
         LAMBDA restaurantResult :
      IF cached.raised THEN InternalErrorReply(cached.store, <<>>)
      ELSE IF Truthy(cached.value)
      THEN Outcome(200, Some("HIT"), cached.value, cached.store, <<>>, <<>>)
      ELSE IF Rejects(fails, {"by_slug"})
      THEN InternalErrorReply(cached.store, <<bySlug>>)
      ELSE IF restaurantResult = {}
      THEN Outcome(404, None,
                   JsRec([statusCode |-> 404, error |-> "Not Found",
                          message |-> <<"Restoran bulunamadi: ", slug>>]),
                   cached.store, <<bySlug>>, <<>>)
      ELSE
        Bind(CHOOSE x \in restaurantResult : TRUE, LAMBDA id :
        Bind(<< bySlug,
                [table |-> "restaurant_platforms", select |-> "platforms",
                 restaurantId |-> id],
                [table |-> "food_scores", select |-> "scores",
                 restaurantId |-> id],
                [table |-> "reviews", select |-> "recent",
                 restaurantId |-> id],
                [table |-> "food_mentions", select |-> "sentiment",
                 restaurantId |-> id] >>,
             LAMBDA queries :
          IF Rejects(fails, {"platforms", "scores", "recent", "sentiment"})
          THEN InternalErrorReply(cached.store, queries)
          ELSE
            Bind(ScoresQuery(F, id, drank), LAMBDA scores :
            Bind(JsRec([restaurant |->
                          [id |-> id, name |-> R[id].name, slug |-> R[id].slug,
                           district |-> R[id].district,
                           location |-> R[id].location,
                           cuisineType |-> R[id].cuisineType,
                           priceRange |-> R[id].priceRange,
                           overallScore |-> R[id].overallScore],
                        foodScores |->
                          [i \in 1..Len(scores) |->
                             [foodName |-> scores[i].foodName,
                              score |-> scores[i].score,
                              reviewCount |-> scores[i].reviewCount]]]),
                 LAMBDA response :
            Bind(cacheSet(cached.store, cacheKey, response, RestaurantTtl, t,
                          down),
                 LAMBDA set :
              IF set.raised THEN InternalErrorReply(set.store, queries)
              ELSE Outcome(200, Some("MISS"), response, set.store, queries,
                           << [key |-> cacheKey,
                               ttl |-> RestaurantTtl] >>)))))))))))

\* GET /api/v1/restaurants/:slug while storage answers every query.
RestaurantHandler(slug, st, t, down, R, F, drank) ==
  RestaurantHandlerOn(slug, st, t, down, R, F, drank, {})

\* AutocompleteQuerySchema: q is a string of 2..50 characters.
AutocompleteQueryValid(rawQuery) ==
  /\ Has(rawQuery, "q")
  /\ Get(rawQuery, "q").k = "text"
  /\ Len(Get(rawQuery, "q").s) >= 2
  /\ Len(Get(rawQuery, "q").s) <= 50

\* The key built from q as it was sent.
AutocompleteCacheKey_Raw(q) == <<"autocomplete", q>>

\* `autocomplete:${q.toLowerCase().trim()}`
AutocompleteCacheKey(q) == <<"autocomplete", trim(toLowerCase(q))>>

SuggestionLimit == 5

\* The restaurant suggestions: similarity desc, then overall score desc
\* (NULL first, as DESC orders it), at most 5.
SuggestRestaurants(R, q, rank) ==
  LET ids == {id \in DOMAIN R : TextMatches(R[id], q) /\ R[id].isActive}
      LessThan(a, b) ==
        LET sa == R[a].overallScore
            sb == R[b].overallScore
            same == \/ ~IsSome(sa) /\ ~IsSome(sb)
                    \/ IsSome(sa) /\ IsSome(sb) /\ Val(sa) = Val(sb)
        IN \/ R[a].similarity > R[b].similarity
           \/ /\ R[a].similarity = R[b].similarity
              /\ \/ ~IsSome(sa) /\ IsSome(sb)
                 \/ IsSome(sa) /\ IsSome(sb) /\ Val(sa) > Val(sb)
                 \/ same /\ rank[a] < rank[b]
      sorted == SortSet(ids, LessThan)
  IN SubSeq(sorted, 1, Min(SuggestionLimit, Len(sorted)))

\* The dish suggestions: rows of the dishes table, similarity desc, at most 5.
SuggestDishes(D, q) ==
  LET rows == {d \in D : trim(toLowerCase(q)) \in d.matches}
      LessThan(a, b) ==
        \/ a.similarity > b.similarity
        \/ a.similarity = b.similarity /\ a.id < b.id
      sorted == SortSet(rows, LessThan)
  IN SubSeq(sorted, 1, Min(SuggestionLimit, Len(sorted)))

\* GET /api/v1/autocomplete, with the storage queries of `fails` raising.
\* The two queries are started together.
AutocompleteHandlerOn(rawQuery, st, t, down, R, F, D, rank, fails) ==
  IF ~AutocompleteQueryValid(rawQuery) THEN ValidationReply(st)
  ELSE
    Bind(trim(Get(rawQuery, "q").s), LAMBDA q :
    Bind(AutocompleteCacheKey(q), LAMBDA cacheKey :
    Looked(cacheKey,
    Bind(cacheGet(st, cacheKey, t, down), LAMBDA cached :
    Bind(<< [table |-> "restaurants", select |-> "suggest_restaurants",
              q |-> q],
            [table |-> "dishes", select |-> "suggest_dishes", q |-> q] >>,
         LAMBDA queries :
      IF cached.raised THEN InternalErrorReply(cached.store, <<>>)
      ELSE IF Truthy(cached.value)
      THEN Outcome(200, Some("HIT"), cached.value, cached.store, <<>>, <<>>)
      ELSE IF Rejects(fails, {"suggest_restaurants", "suggest_dishes"})
      THEN InternalErrorReply(cached.store, queries)
      ELSE
        Bind(SuggestRestaurants(R, q, rank), LAMBDA restaurantResults :
        Bind(SuggestDishes(D, q), LAMBDA dishResults :
        Bind(JsRec([restaurants |->
                      [i \in 1..Len(restaurantResults) |->
                         Bind(R[restaurantResults[i]], LAMBDA r :
                           [id |-> restaurantResults[i], name |-> r.name,
                            slug |-> r.slug, district |-> r.district,
                            cuisineType |-> r.cuisineType,
                            overallScore |-> r.overallScore])],
                    dishes |->
                      [i \in 1..Len(dishResults) |->
                         Bind(dishResults[i], LAMBDA d :
                           [id |-> d.id, name |-> d.name, slug |-> d.slug,
                            category |-> d.category,
                            restaurantCount |->
                              Cardinality({f.restaurantId : f \in
                                {g \in F : g.foodName = d.name}})])]]),
             LAMBDA response :
        Bind(cacheSet(cached.store, cacheKey, response, AutocompleteTtl, t,
                      down),
             LAMBDA set :
          IF set.raised THEN InternalErrorReply(set.store, queries)
          ELSE Outcome(200, Some("MISS"), response, set.store, queries,
                       << [key |-> cacheKey,
                           ttl |-> AutocompleteTtl] >>))))))))))

\* GET /api/v1/autocomplete while storage answers every query.
AutocompleteHandler(rawQuery, st, t, down, R, F, D, rank) ==
  AutocompleteHandlerOn(rawQuery, st, t, down, R, F, D, rank, {})

(***************************************************************************)
(* Bounds and fixtures.                                                    *)
(***************************************************************************)
MaxRequests == 2
MaxTimeUnits == 2

TickSteps == {600}

Ke == <<"k", "e">>
Ba == <<"b", "a">>

\* Three venues.  1 and 3 have the same score, 1 and 2 lie at the same
\* distance from (41, 29), 2 and 3 were created together; 2 is unrated and 3
\* has no location.
InitRestaurants ==
  (1 :> [name |-> "Kebapci", slug |-> <<"a">>,
         district |-> Some(<<"K", "a">>), cuisineType |-> {"kebap"},
         priceRange |-> Some(2), overallScore |-> Some(850), createdAt |-> 3,
         isActive |-> TRUE,
         location |-> Some([lat |-> 41, lng |-> 29, off |-> 500]),
         matches |-> {Ke}, similarity |-> 5])
  @@ (2 :> [name |-> "Kebap Evi", slug |-> <<"b">>,
            district |-> Some(<<"k", "a">>), cuisineType |-> {"kebap", "turk"},
            priceRange |-> Some(2), overallScore |-> None, createdAt |-> 2,
            isActive |-> TRUE,
            location |-> Some([lat |-> 41, lng |-> 29, off |-> 500]),
            matches |-> {Ke}, similarity |-> 5])
  @@ (3 :> [name |-> "Balikci", slug |-> <<"a", "-", "b">>,
            district |-> None, cuisineType |-> {"balik"},
            priceRange |-> None, overallScore |-> Some(850), createdAt |-> 2,
            isActive |-> TRUE, location |-> None,
            matches |-> {Ke, Ba}, similarity |-> 3])

\* Venue 1 has four scored dishes, two of them with the same score.
InitFoodScores ==
  {[id |-> 1, restaurantId |-> 1, foodName |-> "adana", score |-> Some(920),
    reviewCount |-> 45],
   [id |-> 2, restaurantId |-> 1, foodName |-> "urfa", score |-> Some(900),
    reviewCount |-> 12],
   [id |-> 3, restaurantId |-> 1, foodName |-> "beyti", score |-> Some(900),
    reviewCount |-> 7],
   [id |-> 4, restaurantId |-> 1, foodName |-> "ayran", score |-> Some(700),
    reviewCount |-> 3],
   [id |-> 5, restaurantId |-> 2, foodName |-> "adana", score |-> Some(800),
    reviewCount |-> 9]}

Dishes ==
  {[id |-> 1, name |-> "adana", slug |-> <<"a">>, category |-> Some("kebap"),
    canonicalName |-> Some("Adana"), matches |-> {Ke}, similarity |-> 4],
   [id |-> 2, name |-> "beyti", slug |-> <<"b">>, category |-> None,
    canonicalName |-> None, matches |-> {Ke, Ba}, similarity |-> 2]}

\* The two orders in which the storage engine may return rows that the
\* ORDER BY leaves equal (every group of equal rows above has two members).
TieOrders == {"asc", "desc"}
RankOf(tie, ids) == [i \in ids |-> IF tie = "asc" THEN i ELSE 0 - i]

(***************************************************************************)
(* State.                                                                  *)
(***************************************************************************)
VARIABLES
  store,        \* the cache backend: key -> [value, expiry]
  origin,       \* history: key -> the request whose cacheSet wrote the entry
  now,          \* the clock, in seconds
  redisDown,    \* TRUE while the cache backend raises on every call
  restaurants,  \* the restaurants table
  foodScores,   \* the food_scores table
  last,         \* the last operation and its outcome
  nreq,         \* the number of requests handled
  arg           \* the input of a function under test, None otherwise

vars ==
  <<store, origin, now, redisDown, restaurants, foodScores, last, nreq, arg>>

NoOutcome == Outcome(0, None, JsNull, EmptyStore, <<>>, <<>>)

NoOperation ==
  [op |-> "none", input |-> <<>>, params |-> {}, key |-> None,
   down |-> FALSE, at |-> 0, fails |-> {}, raised |-> FALSE,
   out |-> NoOutcome, ref |-> NoOutcome]

Init ==
  /\ store = EmptyStore
  /\ origin = EmptyStore
  /\ now = 0
  /\ redisDown = FALSE
  /\ restaurants = InitRestaurants
  /\ foodScores = InitFoodScores
  /\ last = NoOperation
  /\ nreq = 0
  /\ arg = None

\* The validated parameters of a request, as a set of <<name, value>>.
SearchParams(rawQuery) ==
  IF SearchQueryValid(rawQuery) THEN Range(SearchQueryParse(rawQuery)) ELSE {}

\* What a request leaves behind: the cache, the history of its entries and
\* the outcome.  The history follows the cache: a key written (the backend
\* working) is attributed to this request, a dropped key is forgotten.
\* `ref` is what the request is answered from storage alone, on the same
\* tables; `fails` are the storage queries that raised.
Respond(op, input, params, key, out, ref, fails) ==
  /\ store' = out.store
  /\ origin' =
       [k \in DOMAIN out.store |->
          IF ~redisDown /\ \E i \in 1..Len(out.writes) : out.writes[i].key = k
          THEN [op |-> op, input |-> input, params |-> params,
                body |-> out.body, at |-> now,
                ttl |-> out.writes[CHOOSE i \in 1..Len(out.writes) :
                                     out.writes[i].key = k].ttl]
          ELSE origin[k]]
  /\ last' = [op |-> op, input |-> input, params |-> params, key |-> key,
              down |-> redisDown, at |-> now, fails |-> fails,
              raised |-> FALSE, out |-> [out EXCEPT !.store = EmptyStore],
              ref |-> [ref EXCEPT !.store = EmptyStore]]
  /\ nreq' = nreq + 1
  /\ UNCHANGED <<now, redisDown, restaurants, foodScores, arg>>

SearchStep(rawQuery, tie) ==
  \E rank \in {RankOf(tie, DOMAIN restaurants)},
     drank \in {RankOf(tie, {f.id : f \in foodScores})} :
    \E out \in {SearchHandler(rawQuery, store, now, redisDown, restaurants,
                              foodScores, rank, drank)},
       ref \in {SearchHandler(rawQuery, EmptyStore, now, FALSE, restaurants,
                              foodScores, rank, drank)} :
      Respond("search", rawQuery, SearchParams(rawQuery),
              IF SearchQueryValid(rawQuery)
              THEN Some(SearchCacheKey(SearchQueryParse(rawQuery))) ELSE None,
              out, ref, {})

Search(rawQuery, tie) ==
  /\ nreq < MaxRequests
  /\ SearchStep(rawQuery, tie)

Autocomplete(rawQuery, tie) ==
  /\ nreq < MaxRequests
  /\ \E rank \in {RankOf(tie, DOMAIN restaurants)} :
     \E out \in {AutocompleteHandler(rawQuery, store, now, redisDown,
                                     restaurants, foodScores, Dishes, rank)},
        ref \in {AutocompleteHandler(rawQuery, EmptyStore, now, FALSE,
                                     restaurants, foodScores, Dishes, rank)} :
       Respond("autocomplete", rawQuery, Range(rawQuery),
               IF AutocompleteQueryValid(rawQuery)
               THEN Some(AutocompleteCacheKey(trim(Get(rawQuery, "q").s)))
               ELSE None,
               out, ref, {})

Restaurant(slug, tie) ==
  /\ nreq < MaxRequests
  /\ \E drank \in {RankOf(tie, {f.id : f \in foodScores})} :
     \E out \in {RestaurantHandler(slug, store, now, redisDown, restaurants,
                                   foodScores, drank)},
        ref \in {RestaurantHandler(slug, EmptyStore, now, FALSE, restaurants,
                                   foodScores, drank)} :
       Respond("restaurant", slug, {<<"slug", slug>>},
               IF SlugValid(slug) THEN Some(RestaurantCacheKey(slug))
               ELSE None,
               out, ref, {})

\* A call of an invalidation helper by the collaborator that mutates data.
Maintain(op, input, r) ==
  /\ store' = r.store
  /\ origin' = [k \in DOMAIN r.store |-> origin[k]]
  /\ last' = [op |-> op, input |-> input, params |-> {}, key |-> None,
              down |-> redisDown, at |-> 0, fails |-> {},
              raised |-> r.raised, out |-> NoOutcome, ref |-> NoOutcome]
  /\ UNCHANGED <<now, redisDown, restaurants, foodScores, nreq, arg>>

Patterns == {"search", "restaurant", "autocomplete"}

InvalidatePattern(pattern) ==
  Maintain("cacheDeletePattern", pattern,
              cacheDeletePattern(store, pattern, redisDown))

InvalidateKey(key) ==
  /\ key \in DOMAIN store
  /\ Maintain("cacheDelete", key, cacheDelete(store, key, redisDown))

\* The cache backend goes away and comes back.
BackendFails ==
  /\ ~redisDown
  /\ redisDown' = TRUE
  /\ UNCHANGED <<store, origin, now, restaurants, foodScores, last, nreq, arg>>

BackendRecovers ==
  /\ redisDown
  /\ redisDown' = FALSE
  /\ UNCHANGED <<store, origin, now, restaurants, foodScores, last, nreq, arg>>

Tick(d) ==
  /\ now + d <= MaxTimeUnits * SearchTtl
  /\ now' = now + d
  /\ UNCHANGED <<store, origin, redisDown, restaurants, foodScores, last, nreq,
                 arg>>

\* A venue is deactivated by its owner (the engine only reads the table).
Deactivate(id) ==
  /\ restaurants[id].isActive
  /\ restaurants' = [restaurants EXCEPT ![id].isActive = FALSE]
  /\ UNCHANGED <<store, origin, now, redisDown, foodScores, last, nreq, arg>>

\* Raw queries: the members that are present, in the order given.
RECURSIVE Present(_)
Present(members) ==
  IF members = <<>> THEN <<>>
  ELSE (IF IsSome(members[1][2])
        THEN << <<members[1][1], Val(members[1][2])>> >> ELSE <<>>)
       \o Present(Tail(members))

Reverse(s) == [i \in 1..Len(s) |-> s[Len(s) + 1 - i]]

Opt(S) == {None} \cup {Some(x) : x \in S}

\* Search requests: plain, sorted by distance with both, one or no
\* coordinate, and a q that is too short.
SearchInputs ==
  LET full == << <<"q", RawText(Ke)>>, <<"sort_by", RawText(<<"distance">>)>>,
                 <<"lat", RawInt(41)>>, <<"lng", RawInt(29)>> >>
  IN {SubSeq(full, 1, 1), SubSeq(full, 1, 2), SubSeq(full, 1, 3),
      <<full[1], full[2], full[4]>>, full,
      << <<"q", RawText(<<"k">>)>> >>}

AutocompleteInputs ==
  {<< <<"q", RawText(q)>> >> : q \in {Ke, <<"K", "e">>, <<"k">>}}

SlugInputs == {<<"a">>, <<"c">>, <<"A">>}

\* The venues whose owner may deactivate them.
Deactivatable == {1}

Next ==
  \/ \E rawQuery \in SearchInputs, tie \in TieOrders : Search(rawQuery, tie)
  \/ \E rawQuery \in AutocompleteInputs, tie \in TieOrders :
       Autocomplete(rawQuery, tie)
  \/ \E slug \in SlugInputs, tie \in TieOrders : Restaurant(slug, tie)
  \/ \E pattern \in Patterns : InvalidatePattern(pattern)
  \/ \E key \in DOMAIN store : InvalidateKey(key)
  \/ BackendFails
  \/ BackendRecovers
  \/ \E d \in TickSteps : Tick(d)
  \/ \E id \in Deactivatable : Deactivate(id)

Spec == Init /\ [][Next]_vars

(***************************************************************************)
(* Properties of the API under Spec.                                       *)
(***************************************************************************)
Requests == {"search", "autocomplete", "restaurant"}

TtlOf(op) ==
  CASE op = "search" -> SearchTtl
    [] op = "restaurant" -> RestaurantTtl
    [] op = "autocomplete" -> AutocompleteTtl

\* C1 (graceful degradation): while the cache backend raises on every call,
\* no cache helper raises to its caller, no request is answered from the
\* cache or fails because of the cache, and every request gets the status
\* and the body that storage alone gives it, marked X-Cache: MISS when it
\* is a 200; the cache itself is left as it was.
C1_GracefulDegradation ==
  last.down =>
    /\ ~last.raised
    /\ last.op \in Requests =>
         /\ last.out.status = last.ref.status
         /\ last.out.body = last.ref.body
         /\ last.out.queries = last.ref.queries
         /\ last.out.xcache # Some("HIT")
         /\ last.out.status = 200 => last.out.xcache = Some("MISS")

\* A request served from storage while the cache holds an entry for its key.
C1_Witness ==
  /\ last.down
  /\ last.op = "search"
  /\ last.out.status = 200
  /\ last.out.xcache = Some("MISS")
  /\ Val(last.key) \in DOMAIN store

IsRequestStep == nreq' = nreq + 1

\* C3 (MISS then HIT): a successful request that finds the cache empty is
\* answered X-Cache: MISS; and when a request was answered 200 MISS with a
\* working backend, the next operation on the cache, if it is a request to
\* the same route with the same parameters made with a working backend no
\* later than the TTL after the first, is answered 200 X-Cache: HIT with
\* the same body and without a storage query.
C3_MissThenHit ==
  [][IsRequestStep =>
       /\ (store = EmptyStore /\ last'.out.status = 200)
            => last'.out.xcache = Some("MISS")
       /\ IF last.op \in Requests /\ last'.op = last.op
          THEN (/\ last.out.status = 200
                /\ last.out.xcache = Some("MISS")
                /\ ~last.down
                /\ ~redisDown
                /\ last'.params = last.params
                /\ now <= last.at + TtlOf(last.op))
               => /\ last'.out.status = 200
                  /\ last'.out.xcache = Some("HIT")
                  /\ last'.out.body = last.out.body
                  /\ last'.out.queries = <<>>
          ELSE TRUE]_vars

\* A HIT for the parameters that wrote the entry, after time has passed.
C3_Witness ==
  /\ last.op \in Requests
  /\ last.out.xcache = Some("HIT")
  /\ origin[Val(last.key)].params = last.params
  /\ origin[Val(last.key)].body = last.out.body
  /\ now > 0

C4_DistanceNeedsOrigin ==
  (/\ last.op = "search"
   /\ SearchQueryValid(last.input)
   /\ Has(last.input, "sort_by")
   /\ Get(last.input, "sort_by") = RawText(<<"distance">>)
   /\ (~Has(last.input, "lat") \/ ~Has(last.input, "lng")))
  => /\ last.out.status = 400
     /\ last.out.body.r.message = DistanceMessage
     /\ last.out.queries = <<>>
     /\ last.out.writes = <<>>
     /\ last.out.xcache = None

\* Such a request, with one coordinate, made while the cache holds entries.
C4_Witness ==
  /\ last.op = "search"
  /\ Has(last.input, "sort_by")
  /\ Has(last.input, "lat") /\ ~Has(last.input, "lng")
  /\ last.out.status = 400
  /\ ~last.down
  /\ \E k \in DOMAIN store : k[1] = "search"

(***************************************************************************)
(* SpecPairs: two search requests on an empty cache.  The first is drawn   *)
(* from every combination of the optional members; the second is the first *)
(* with at most one member changed, added or removed, its members written  *)
(* in the same or in the opposite order.                                   *)
(***************************************************************************)
MemberOrder ==
  <<"q", "district", "cuisine", "price_range", "min_score", "sort_by", "page",
    "limit", "lat", "lng">>

\* The raw values a member takes: the first is the one of the first request.
MemberValues(name) ==
  CASE name = "q" -> <<RawText(Ke), RawText(Ba)>>
    [] name = "district" -> <<RawText(<<"k", "a">>), RawText(<<"K", "a">>)>>
    [] name = "cuisine" -> <<RawText(<<"kebap">>), RawText(<<"balik">>)>>
    [] name = "price_range" -> <<RawInt(2), RawInt(3)>>
    [] name = "min_score" -> <<RawInt(8), RawInt(9)>>
    [] name = "sort_by" -> <<RawText(<<"distance">>), RawText(<<"newest">>)>>
    [] name = "page" -> <<RawInt(2), RawInt(1)>>
    [] name = "limit" -> <<RawInt(1), RawInt(20)>>
    [] name = "lat" -> <<RawInt(41), RawInt(0)>>
    [] name = "lng" -> <<RawInt(29), RawInt(0)>>

\* A choice of members: name -> None or Some(raw value).
PairBases ==
  {[name \in Range(MemberOrder) |->
      IF name = "q" THEN Some(MemberValues(name)[1])
      ELSE IF name \in S THEN Some(MemberValues(name)[1]) ELSE None] :
     S \in SUBSET (Range(MemberOrder) \ {"q"})}

Render(base) ==
  Present([i \in 1..Len(MemberOrder) |->
             <<MemberOrder[i], base[MemberOrder[i]]>>])

PairChanges ==
  {None}
  \cup {Some(<<name, v>>) : name \in Range(MemberOrder) \ {"q"}, v \in {None}}
  \cup {Some(<<name, Some(MemberValues(name)[i])>>) :
          name \in Range(MemberOrder), i \in 1..2}

Changed(base, change) ==
  IF change = None THEN base
  ELSE [base EXCEPT ![Val(change)[1]] = Val(change)[2]]

\* Venue 1 has been deactivated.
InitPairs ==
  /\ store = EmptyStore
  /\ origin = EmptyStore
  /\ now = 0
  /\ redisDown = FALSE
  /\ restaurants = [InitRestaurants EXCEPT ![1].isActive = FALSE]
  /\ foodScores = InitFoodScores
  /\ last = NoOperation
  /\ nreq = 0
  /\ arg \in PairBases

PairFirst ==
  /\ nreq = 0
  /\ \E rawQuery \in {Render(arg)} : SearchStep(rawQuery, "asc")

PairSecond(change, reversed) ==
  /\ nreq = 1
  /\ \E rawQuery \in {IF reversed THEN Reverse(Render(Changed(arg, change)))
                       ELSE Render(Changed(arg, change))} :
       SearchStep(rawQuery, "asc")

NextPairs ==
  \/ PairFirst
  \/ \E change \in PairChanges, reversed \in BOOLEAN :
       PairSecond(change, reversed)

SpecPairs == InitPairs /\ [][NextPairs]_vars

FirstRaw == Render(arg)
FirstKey == SearchCacheKey(SearchQueryParse(FirstRaw))
FirstStored == FirstKey \in DOMAIN origin

\* C7 (active only): the WHERE clause of the page query and of the count
\* query of every search request contains is_active = true, both queries
\* have the same WHERE clause, and no venue of the response is inactive.
C7_ActiveOnly ==
  (last.op = "search" /\ last.out.xcache = Some("MISS")) =>
    /\ Len(last.out.queries) >= 2
    /\ last.out.queries[1].select = "page"
    /\ last.out.queries[2].select = "count"
    /\ last.out.queries[1].where = last.out.queries[2].where
    /\ \A i \in 1..2 :
         \E j \in 1..Len(last.out.queries[i].where) :
           last.out.queries[i].where[j].p = "is_active"
    /\ \A i \in 1..Len(last.out.body.r.data) :
         restaurants[last.out.body.r.data[i].id].isActive

\* A request with every optional filter and both coordinates, on a table
\* that holds an inactive venue matching the text.
C7_Witness ==
  /\ last.op = "search"
  /\ last.out.xcache = Some("MISS")
  /\ Len(last.out.queries[1].where) = 7
  /\ \E id \in DOMAIN restaurants :
       ~restaurants[id].isActive /\ TextMatches(restaurants[id], Ke)

\* C8 (key stability): a second search request with the members of the
\* first, names and values, in another order has the cache key of the
\* first, and when the first wrote an entry the second is answered X-Cache:
\* HIT with the body of the first.
C8_KeyStability ==
  (/\ nreq = 2
   /\ SearchQueryValid(last.input)
   /\ Range(last.input) = Range(FirstRaw))
  => /\ last.key = Some(FirstKey)
     /\ FirstStored =>
          /\ last.out.xcache = Some("HIT")
          /\ last.out.body = origin[FirstKey].body
          /\ origin[FirstKey].input = FirstRaw
     /\ FirstStored \/ last.out.status = 400

C8_Witness ==
  /\ nreq = 2
  /\ Range(last.input) = Range(FirstRaw)
  /\ last.input # FirstRaw
  /\ Len(last.input) >= 3
  /\ last.out.xcache = Some("HIT")
  /\ origin[FirstKey].input = FirstRaw

\* C9 (one key per parameter set): two search requests whose validated
\* parameters differ have different cache keys, and a request answered from
\* the cache gets the response stored for its own validated parameters.
C9_DistinctKeys ==
  /\ (last.op = "search" /\ last.out.xcache = Some("HIT")) =>
       /\ Val(last.key) \in DOMAIN origin
       /\ origin[Val(last.key)].params = last.params
  /\ (/\ nreq = 2
      /\ SearchQueryValid(last.input)
      /\ last.params # SearchParams(FirstRaw))
     => /\ last.key # Some(FirstKey)
        /\ last.out.xcache # Some("HIT")

\* The second request differs from the first, which wrote an entry, in one
\* member only and goes to storage.
C9_Witness ==
  /\ nreq = 2
  /\ FirstStored
  /\ last.params # SearchParams(FirstRaw)
  /\ Cardinality(last.params \ SearchParams(FirstRaw)) = 1
  /\ last.out.xcache = Some("MISS")
  /\ Cardinality(DOMAIN store) = 2

(***************************************************************************)
(* SpecRoundTrip: cacheSet(key, v, ttl) and then cacheGet(key), for JSON   *)
(* values v, on a working backend.                                         *)
(***************************************************************************)
MaxJsonLen == 2

JsonAtoms ==
  {JsNull, JsBool(TRUE), JsBool(FALSE), JsNum(0), JsNum(1), JsNum(-7),
   JsStr(""), JsStr("iki")}

SeqsUpTo(S, n) == UNION {[1..m -> S] : m \in 0..n}

MemberNames == <<"a", "b", "c", "d">>

JsonValues ==
  LET arrays == {JsArr(xs) : xs \in SeqsUpTo(JsonAtoms, MaxJsonLen)}
      objects ==
        UNION {{JsObj([i \in 1..Len(vs) |-> <<MemberNames[i], vs[i]>>]),
                JsObj([i \in 1..Len(vs) |->
                         <<MemberNames[Len(vs) + 1 - i], vs[i]>>])} :
                 vs \in SeqsUpTo(JsonAtoms, MaxJsonLen)}
      inner == {JsArr(<<>>), JsArr(<<JsNum(1), JsStr("iki")>>),
                JsObj(<< <<"uc", JsNum(3)>> >>)}
      nested == {JsArr(<<x, y>>) : x \in inner, y \in JsonAtoms}
                \cup {JsObj(<< <<"items", x>>, <<"count", y>> >>) :
                        x \in inner, y \in JsonAtoms}
  IN JsonAtoms \cup arrays \cup objects \cup nested

RoundTripKeys == {<<"test-key">>, <<"restaurant", <<"a">>>>}
RoundTripTtls == {1, 60, 3600}

\* The cache is empty or holds an older entry under one of the keys.
InitRoundTrip ==
  /\ store \in {EmptyStore,
                RedisSet(EmptyStore, <<"test-key">>,
                         JSONstringify(JsStr("eski")), 60, 0)}
  /\ origin = EmptyStore
  /\ now = 0
  /\ redisDown = FALSE
  /\ restaurants = InitRestaurants
  /\ foodScores = InitFoodScores
  /\ last = NoOperation
  /\ nreq = 0
  /\ arg \in [key : RoundTripKeys, v : JsonValues, ttl : RoundTripTtls]

RoundTripSet ==
  /\ nreq = 0
  /\ LET r == cacheSet(store, arg.key, arg.v, arg.ttl, now, redisDown)
     IN /\ store' = r.store
        /\ last' = [NoOperation EXCEPT !.op = "cacheSet", !.raised = r.raised]
  /\ nreq' = 1
  /\ UNCHANGED <<origin, now, redisDown, restaurants, foodScores, arg>>

RoundTripGet ==
  /\ nreq = 1
  /\ LET r == cacheGet(store, arg.key, now, redisDown)
     IN /\ store' = r.store
        /\ last' = [NoOperation EXCEPT !.op = "cacheGet",
                                       !.raised = r.raised,
                                       !.out.body = r.value]
  /\ nreq' = 2
  /\ UNCHANGED <<origin, now, redisDown, restaurants, foodScores, arg>>

NextRoundTrip == RoundTripSet \/ RoundTripGet

SpecRoundTrip == InitRoundTrip /\ [][NextRoundTrip]_vars

\* C2 (round trip): with a working backend, cacheGet(key) right after
\* cacheSet(key, v, ttl), for a JSON value v and ttl > 0, returns a value
\* deep-equal to v.
C2_RoundTrip ==
  last.op = "cacheGet" => (~last.raised /\ DeepEqual(last.out.body, arg.v))

\* The round trip of an object that holds an array, over an older entry.
C2_Witness ==
  /\ last.op = "cacheGet"
  /\ arg.v.t = "obj"
  /\ Len(arg.v.ps) = 2
  /\ arg.v.ps[1][2].t = "arr"
  /\ arg.key = <<"test-key">>
  /\ DeepEqual(last.out.body, arg.v)

(***************************************************************************)
(* SpecPagination: the pagination block for every total, page and limit.   *)
(***************************************************************************)
MaxTotal == 45
MaxPage == 4
MaxLimit == 50

InitPagination ==
  /\ store = EmptyStore
  /\ origin = EmptyStore
  /\ now = 0
  /\ redisDown = FALSE
  /\ restaurants = InitRestaurants
  /\ foodScores = InitFoodScores
  /\ last = NoOperation
  /\ nreq = 0
  /\ arg \in [total : 0..MaxTotal, page : 1..MaxPage, limit : 1..MaxLimit]

Paginate ==
  /\ nreq = 0
  /\ last' = [NoOperation EXCEPT
                !.op = "calculatePagination",
                !.out.body =
                  JsRec(calculatePagination(arg.total, arg.page, arg.limit))]
  /\ nreq' = 1
  /\ UNCHANGED <<store, origin, now, redisDown, restaurants, foodScores, arg>>

NextPagination == Paginate

SpecPagination == InitPagination /\ [][NextPagination]_vars

\* C5 (pagination): for total >= 0, page >= 1 and limit in 1..50,
\* totalPages is the least n with n * limit >= total, hasNext is
\* page < totalPages, which is page * limit < total, and hasPrev is
\* page > 1; with total 45 and limit 20 there are 3 pages, page 1 has a next
\* and no previous page and page 3 has no next page.
C5_Pagination ==
  last.op = "calculatePagination" =>
    LET p == last.out.body.r
    IN /\ p.totalPages >= 0
       /\ p.totalPages * arg.limit >= arg.total
       /\ (p.totalPages - 1) * arg.limit < arg.total
       /\ p.hasNext = (arg.page < p.totalPages)
       /\ p.hasNext = (arg.page * arg.limit < arg.total)
       /\ p.hasPrev = (arg.page > 1)
       /\ (arg.total = 45 /\ arg.limit = 20) =>
            /\ p.totalPages = 3
            /\ arg.page = 1 => (~p.hasPrev /\ p.hasNext)
            /\ arg.page = 3 => ~p.hasNext

C5_Witness ==
  /\ last.op = "calculatePagination"
  /\ arg = [total |-> 45, page |-> 3, limit |-> 20]
  /\ last.out.body.r.totalPages = 3
  /\ ~last.out.body.r.hasNext
  /\ last.out.body.r.hasPrev

(***************************************************************************)
(* SpecDishes: one search on every small food_scores table, with the       *)
(* dish rows of equal score in either order of their ids.                  *)
(***************************************************************************)
MaxDishRows == 5

DishNames == <<"adana", "urfa", "beyti", "ayran", "iskender", "kofte">>
DishVenues == {1, 2}
DishScoreValues == {800, 900}

DishTables ==
  {{[id |-> i, restaurantId |-> v[i], foodName |-> DishNames[i],
     score |-> Some(sc[i]), reviewCount |-> i] : i \in 1..MaxDishRows} :
     v \in [1..MaxDishRows -> DishVenues],
     sc \in [1..MaxDishRows -> DishScoreValues]}

DishInputs ==
  {<< <<"q", RawText(Ke)>> >>,
   << <<"q", RawText(Ke)>>, <<"limit", RawInt(1)>> >>}

InitDishes ==
  /\ store = EmptyStore
  /\ origin = EmptyStore
  /\ now = 0
  /\ redisDown = FALSE
  /\ restaurants = InitRestaurants
  /\ foodScores \in DishTables
  /\ last = NoOperation
  /\ nreq = 0
  /\ arg = None

DishSearch(rawQuery, tie) ==
  /\ nreq = 0
  /\ SearchStep(rawQuery, tie)

NextDishes ==
  \E rawQuery \in DishInputs, tie \in TieOrders : DishSearch(rawQuery, tie)

SpecDishes == InitDishes /\ [][NextDishes]_vars

\* C6 (top dishes): every venue of the page has at most 3 topDishes, all
\* of them rows of that venue, in descending score order; a venue with more
\* than 3 scored dishes has exactly 3, and none of its other dishes scores
\* higher than one that is listed.
C6_TopDishes ==
  (last.op = "search" /\ last.out.xcache = Some("MISS")) =>
    \A i \in 1..Len(last.out.body.r.data) :
      LET venue == last.out.body.r.data[i]
          top == venue.topDishes
          mine == {f \in foodScores :
                     f.restaurantId = venue.id /\ IsSome(f.score)}
          listed == {f \in mine : \E j \in 1..Len(top) :
                       /\ top[j].foodName = f.foodName
                       /\ top[j].score = Val(f.score)}
      IN /\ Len(top) <= 3
         /\ Cardinality(listed) = Len(top)
         /\ \A j \in 1..(Len(top) - 1) : top[j].score >= top[j + 1].score
         /\ Cardinality(mine) > 3 => Len(top) = 3
         /\ Cardinality(mine) <= 3 => Len(top) = Cardinality(mine)
         /\ \A f \in mine \ listed : \A g \in listed :
              Val(f.score) <= Val(g.score)

\* A venue with four scored dishes, the third and fourth of equal score.
C6_Witness ==
  /\ last.op = "search"
  /\ last.out.xcache = Some("MISS")
  /\ \E i \in 1..Len(last.out.body.r.data) :
       LET venue == last.out.body.r.data[i]
       IN /\ Cardinality({f \in foodScores : f.restaurantId = venue.id}) > 3
          /\ Len(venue.topDishes) = 3
          /\ venue.topDishes[1].score > venue.topDishes[3].score
          /\ \E f \in foodScores :
               /\ f.restaurantId = venue.id
               /\ Val(f.score) = venue.topDishes[3].score
               /\ \A j \in 1..3 : venue.topDishes[j].foodName # f.foodName

(***************************************************************************)
(* SpecExpiry: one search key and one key written directly, looked up at   *)
(* the instants around the end of their TTL.  The backend works.           *)
(***************************************************************************)
MaxExpiryOps == 3
MaxExpiryTicks == 3

\* Date.now() advances by half the TTL of the search route.
ExpirySteps == {SearchTtl \div 2}

ExpiryKey == <<"ttl-test">>
ExpiryTtls == {SearchTtl \div 2, SearchTtl}
ExpiryQuery == << <<"q", RawText(Ke)>> >>

InitExpiry == Init

ExpirySearch(tie) ==
  /\ nreq < MaxExpiryOps
  /\ SearchStep(ExpiryQuery, tie)

\* await cacheSet("ttl-test", "data", ttl)
ExpirySet(ttl) ==
  /\ nreq < MaxExpiryOps
  /\ \E r \in {cacheSet(store, ExpiryKey, JsStr("data"), ttl, now, redisDown)} :
       /\ store' = r.store
       /\ origin' =
            [k \in DOMAIN r.store |->
               IF k = ExpiryKey
               THEN [op |-> "cacheSet", input |-> ExpiryKey, params |-> {},
                     body |-> JsStr("data"), at |-> now, ttl |-> ttl]
               ELSE origin[k]]
       /\ last' = [NoOperation EXCEPT !.op = "cacheSet",
                                      !.key = Some(ExpiryKey),
                                      !.at = now,
                                      !.raised = r.raised]
  /\ nreq' = nreq + 1
  /\ UNCHANGED <<now, redisDown, restaurants, foodScores, arg>>

\* await cacheGet("ttl-test")
ExpiryGet ==
  /\ nreq < MaxExpiryOps
  /\ \E r \in {cacheGet(store, ExpiryKey, now, redisDown)} :
       /\ store' = r.store
       /\ origin' = [k \in DOMAIN r.store |-> origin[k]]
       /\ last' = [NoOperation EXCEPT !.op = "cacheGet",
                                      !.key = Some(ExpiryKey),
                                      !.at = now,
                                      !.raised = r.raised,
                                      !.out.body = r.value]
  /\ nreq' = nreq + 1
  /\ UNCHANGED <<now, redisDown, restaurants, foodScores, arg>>

ExpiryInvalidate(key) ==
  /\ nreq < MaxExpiryOps
  /\ InvalidateKey(key)

ExpiryTick(d) ==
  /\ now + d <= MaxExpiryTicks * d
  /\ now' = now + d
  /\ UNCHANGED <<store, origin, redisDown, restaurants, foodScores, last, nreq,
                 arg>>

NextExpiry ==
  \/ \E tie \in TieOrders : ExpirySearch(tie)
  \/ \E ttl \in ExpiryTtls : ExpirySet(ttl)
  \/ ExpiryGet
  \/ \E key \in DOMAIN store : ExpiryInvalidate(key)
  \/ \E d \in ExpirySteps : ExpiryTick(d)

SpecExpiry == InitExpiry /\ [][NextExpiry]_vars

\* The entry that the lookup of this step is about, if one is stored.
ExpiryLookup == nreq' = nreq + 1 /\ last'.op \in {"search", "cacheGet"}
ExpiryLive(k) == k \in DOMAIN origin /\ now <= origin[k].at + origin[k].ttl

\* C11 (TTL expiry): a lookup of a key made no later than t + s, where the
\* entry was stored at t with TTL s and not invalidated since, returns the
\* stored value (a request is answered HIT with the stored body and no
\* storage query); a lookup after t + s, or of a key that is not stored,
\* returns nothing (a request is answered MISS and reads storage again).
C11_TtlExpiry ==
  [][ExpiryLookup =>
       LET k == Val(last'.key)
       IN IF last'.op = "cacheGet"
          THEN IF ExpiryLive(k) THEN last'.out.body = origin[k].body
               ELSE last'.out.body = JsNull
          ELSE IF ExpiryLive(k)
               THEN /\ last'.out.xcache = Some("HIT")
                    /\ last'.out.body = origin[k].body
                    /\ last'.out.queries = <<>>
               ELSE /\ last'.out.status = 200
                    /\ last'.out.xcache = Some("MISS")
                    /\ Len(last'.out.queries) >= 2
                    /\ k \in DOMAIN store'
                    /\ store'[k].expiry = Some(now + SearchTtl)]_vars

\* A search answered MISS after the end of the TTL of the entry that an
\* earlier search left and that a search at the last instant of the TTL was
\* answered from; the entry is stored again.
C11_Witness ==
  /\ last.op = "search"
  /\ last.out.xcache = Some("MISS")
  /\ last.at > SearchTtl
  /\ nreq = 3
  /\ origin[Val(last.key)].at = last.at

(***************************************************************************)
(* SpecStorage: requests to the three cached routes while storage queries  *)
(* may raise and the cache backend may be away.                            *)
(***************************************************************************)
MaxStorageRequests == 2

\* The storage queries that raise during a request.
SearchFails == {{}, {"page"}, {"count"}, {"top_dishes"}, {"page", "count"}}
RestaurantFails == {{}, {"by_slug"}, {"scores"}, {"sentiment"}}
AutocompleteFails == {{}, {"suggest_restaurants"}, {"suggest_dishes"}}

\* A valid search, a distance sort without origin, a q that is too short.
StorageSearchInputs ==
  {<< <<"q", RawText(Ke)>> >>,
   << <<"q", RawText(Ke)>>, <<"sort_by", RawText(<<"distance">>)>> >>,
   << <<"q", RawText(<<"k">>)>> >>}

StorageSearch(rawQuery, tie, fails) ==
  /\ nreq < MaxStorageRequests
  /\ \E rank \in {RankOf(tie, DOMAIN restaurants)},
        drank \in {RankOf(tie, {f.id : f \in foodScores})} :
       \E out \in {SearchHandlerOn(rawQuery, store, now, redisDown,
                                   restaurants, foodScores, rank, drank,
                                   fails)},
          ref \in {SearchHandlerOn(rawQuery, EmptyStore, now, FALSE,
                                   restaurants, foodScores, rank, drank,
                                   fails)} :
         Respond("search", rawQuery, SearchParams(rawQuery),
                 IF SearchQueryValid(rawQuery)
                 THEN Some(SearchCacheKey(SearchQueryParse(rawQuery)))
                 ELSE None,
                 out, ref, fails)

StorageRestaurant(slug, tie, fails) ==
  /\ nreq < MaxStorageRequests
  /\ \E drank \in {RankOf(tie, {f.id : f \in foodScores})} :
       \E out \in {RestaurantHandlerOn(slug, store, now, redisDown,
                                       restaurants, foodScores, drank, fails)},
          ref \in {RestaurantHandlerOn(slug, EmptyStore, now, FALSE,
                                       restaurants, foodScores, drank, fails)} :
         Respond("restaurant", slug, {<<"slug", slug>>},
                 IF SlugValid(slug) THEN Some(RestaurantCacheKey(slug))
                 ELSE None,
                 out, ref, fails)

StorageAutocomplete(rawQuery, tie, fails) ==
  /\ nreq < MaxStorageRequests
  /\ \E rank \in {RankOf(tie, DOMAIN restaurants)} :
       \E out \in {AutocompleteHandlerOn(rawQuery, store, now, redisDown,
                                         restaurants, foodScores, Dishes, rank,
                                         fails)},
          ref \in {AutocompleteHandlerOn(rawQuery, EmptyStore, now, FALSE,
                                         restaurants, foodScores, Dishes, rank,
                                         fails)} :
         Respond("autocomplete", rawQuery, Range(rawQuery),
                 IF AutocompleteQueryValid(rawQuery)
                 THEN Some(AutocompleteCacheKey(trim(Get(rawQuery, "q").s)))
                 ELSE None,
                 out, ref, fails)

NextStorage ==
  \/ \E rawQuery \in StorageSearchInputs, tie \in TieOrders,
        fails \in SearchFails : StorageSearch(rawQuery, tie, fails)
  \/ \E slug \in SlugInputs, tie \in TieOrders, fails \in RestaurantFails :
       StorageRestaurant(slug, tie, fails)
  \/ \E rawQuery \in AutocompleteInputs, tie \in TieOrders,
        fails \in AutocompleteFails : StorageAutocomplete(rawQuery, tie, fails)
  \/ BackendFails
  \/ BackendRecovers

SpecStorage == Init /\ [][NextStorage]_vars

\* The keys whose entry is new or has changed in this step.
Written == {k \in DOMAIN store' : k \notin DOMAIN store \/ store'[k] # store[k]}

\* C12 (who writes): a cache entry appears or changes only in a request
\* that is answered 200 X-Cache: MISS after having issued its storage
\* queries, and then it is the entry of that request's key holding that
\* request's body; a request answered 400, 404 or 500 and a request served
\* from the cache make no cacheSet call.
C12_WriteOnlyOnMiss ==
  [][IsRequestStep =>
       /\ Written # {} =>
            /\ last'.out.status = 200
            /\ last'.out.xcache = Some("MISS")
            /\ last'.out.queries # <<>>
            /\ \A i \in DOMAIN last'.out.queries :
                 last'.out.queries[i].select \notin last'.fails
            /\ Written = {Val(last'.key)}
            /\ store'[Val(last'.key)].value = JSONstringify(last'.out.body)
       /\ (last'.out.status # 200 \/ last'.out.xcache = Some("HIT"))
            => last'.out.writes = <<>>]_vars

\* A search that a failing count query ends, after an earlier request has
\* stored its entry.
C12_Witness ==
  /\ last.op = "search"
  /\ last.fails = {"count"}
  /\ last.out.status = 500
  /\ ~last.down
  /\ store # EmptyStore
  /\ nreq = 2

\* The storage queries of the last request that raised.
Raised(op) == {i \in DOMAIN op.out.queries : op.out.queries[i].select \in op.fails}

\* C15 (storage failure): when a storage query issued by a request raises,
\* the request is answered 500 with the error body and nothing of a result,
\* no storage query has been issued twice, the handler has made no cacheSet
\* call and the cache holds what it held before.
C15_StorageFailureAborts ==
  [][(IsRequestStep /\ Raised(last') # {}) =>
       /\ last'.out.status = 500
       /\ last'.out.body = InternalErrorReply(EmptyStore, <<>>).body
       /\ \A i, j \in DOMAIN last'.out.queries :
            i # j => last'.out.queries[i] # last'.out.queries[j]
       /\ last'.out.writes = <<>>
       /\ store' = store]_vars

\* A venue request whose sentiment query raises after the four other
\* queries were issued, while an earlier request's entry is in the cache.
C15_Witness ==
  /\ last.op = "restaurant"
  /\ last.fails = {"sentiment"}
  /\ Raised(last) # {}
  /\ Len(last.out.queries) = 5
  /\ store # EmptyStore

\* C16 (fail fast): a search request that is answered 400, because the
\* schema rejects it or because it sorts by distance without both
\* coordinates, has made no cache call and no storage call.
C16_RejectedBeforeAnyIO ==
  [][(IsRequestStep /\ last'.op = "search" /\ last'.out.status = 400) =>
       /\ last'.out.reads = <<>>
       /\ last'.out.writes = <<>>
       /\ last'.out.queries = <<>>
       /\ store' = store]_vars

(***************************************************************************)
(* SpecCoherency: a search request is not one step.  It reads the cache    *)
(* and storage, and stores its response after a later await; a mutation of *)
(* the tables and an invalidation may come in between.  `arg` holds the    *)
(* request in flight, whether a mutation has happened, and the keys that   *)
(* have not been invalidated since the last mutation.                      *)
(***************************************************************************)
MaxCoherencyRequests == 3

CoherencyInputs ==
  {<< <<"q", RawText(Ke)>> >>,
   << <<"q", RawText(Ke)>>, <<"sort_by", RawText(<<"newest">>)>> >>}

CoherencyKeys ==
  {SearchCacheKey(SearchQueryParse(rawQuery)) : rawQuery \in CoherencyInputs}

\* The dish scores that a recomputation may change, and their new score.
Rescorable == {4}
Rescored == 950

InitCoherency ==
  /\ store = EmptyStore
  /\ origin = EmptyStore
  /\ now = 0
  /\ redisDown = FALSE
  /\ restaurants = InitRestaurants
  /\ foodScores = InitFoodScores
  /\ last = NoOperation
  /\ nreq = 0
  /\ arg = [pending |-> None, mutated |-> FALSE, dirty |-> {}]

\* Lines 230-441: the request finds no entry and computes its response from
\* the tables as they are now.
CoherencyBegin(rawQuery, tie) ==
  /\ nreq < MaxCoherencyRequests
  /\ arg.pending = None
  /\ \E rank \in {RankOf(tie, DOMAIN restaurants)},
        drank \in {RankOf(tie, {f.id : f \in foodScores})},
        query \in {SearchQueryParse(rawQuery)} :
       \E cached \in {cacheGet(store, SearchCacheKey(query), now, redisDown)},
          found \in {SearchResponse(restaurants, foodScores, query, rank,
                                    drank, {})} :
         /\ ~cached.raised
         /\ ~Truthy(cached.value)
         /\ ~found.raised
         /\ store' = cached.store
         /\ origin' = [k \in DOMAIN cached.store |-> origin[k]]
         /\ arg' = [arg EXCEPT !.pending =
                      Some([rawQuery |-> rawQuery,
                            cacheKey |-> SearchCacheKey(query),
                            found |-> found])]
  /\ UNCHANGED <<now, redisDown, restaurants, foodScores, last, nreq>>

\* Lines 442-444: the request in flight stores its response and replies.
CoherencyStore(tie) ==
  /\ arg.pending # None
  /\ \E p \in {Val(arg.pending)},
        rank \in {RankOf(tie, DOMAIN restaurants)},
        drank \in {RankOf(tie, {f.id : f \in foodScores})} :
       \E set \in {cacheSet(store, p.cacheKey, p.found.response, SearchTtl,
                            now, redisDown)},
          ref \in {SearchHandler(p.rawQuery, EmptyStore, now, FALSE,
                                 restaurants, foodScores, rank, drank)} :
         /\ store' = set.store
         /\ origin' =
              [k \in DOMAIN set.store |->
                 IF k = p.cacheKey
                 THEN [op |-> "search", input |-> p.rawQuery,
                       params |-> SearchParams(p.rawQuery),
                       body |-> p.found.response, at |-> now,
                       ttl |-> SearchTtl]
                 ELSE origin[k]]
         /\ last' = [op |-> "search", input |-> p.rawQuery,
                     params |-> SearchParams(p.rawQuery),
                     key |-> Some(p.cacheKey), down |-> redisDown,
                     at |-> now, fails |-> {}, raised |-> FALSE,
                     out |-> Looked(p.cacheKey,
                                    Outcome(200, Some("MISS"),
                                            p.found.response, EmptyStore,
                                            p.found.queries,
                                            << [key |-> p.cacheKey,
                                                ttl |-> SearchTtl] >>)),
                     ref |-> [ref EXCEPT !.store = EmptyStore]]
  /\ nreq' = nreq + 1
  /\ arg' = [arg EXCEPT !.pending = None]
  /\ UNCHANGED <<now, redisDown, restaurants, foodScores>>

\* A request whose reads and write no other operation comes between.
CoherencySearch(rawQuery, tie) ==
  /\ nreq < MaxCoherencyRequests
  /\ SearchStep(rawQuery, tie)

\* A venue is deactivated.
CoherencyDeactivate(id) ==
  /\ restaurants[id].isActive
  /\ restaurants' = [restaurants EXCEPT ![id].isActive = FALSE]
  /\ arg' = [arg EXCEPT !.mutated = TRUE, !.dirty = CoherencyKeys]
  /\ UNCHANGED <<store, origin, now, redisDown, foodScores, last, nreq>>

\* A dish score is recomputed.
CoherencyRescore(id) ==
  /\ \E f \in foodScores : f.id = id /\ f.score # Some(Rescored)
  /\ foodScores' = {IF f.id = id THEN [f EXCEPT !.score = Some(Rescored)]
                    ELSE f : f \in foodScores}
  /\ arg' = [arg EXCEPT !.mutated = TRUE, !.dirty = CoherencyKeys]
  /\ UNCHANGED <<store, origin, now, redisDown, restaurants, last, nreq>>

\* The mutating collaborator calls cacheDeletePattern("search:*").
CoherencyInvalidate ==
  /\ arg.dirty # {}
  /\ \E r \in {cacheDeletePattern(store, "search", redisDown)} :
       /\ store' = r.store
       /\ origin' = [k \in DOMAIN r.store |-> origin[k]]
       /\ last' = [NoOperation EXCEPT !.op = "cacheDeletePattern"]
  /\ arg' = [arg EXCEPT !.dirty = {}]
  /\ UNCHANGED <<now, redisDown, restaurants, foodScores, nreq>>

\* The mutating collaborator calls cacheDelete(key).
CoherencyInvalidateKey(key) ==
  /\ key \in arg.dirty
  /\ \E r \in {cacheDelete(store, key, redisDown)} :
       /\ store' = r.store
       /\ origin' = [k \in DOMAIN r.store |-> origin[k]]
       /\ last' = [NoOperation EXCEPT !.op = "cacheDelete"]
  /\ arg' = [arg EXCEPT !.dirty = arg.dirty \ {key}]
  /\ UNCHANGED <<now, redisDown, restaurants, foodScores, nreq>>

NextCoherency ==
  \/ \E rawQuery \in CoherencyInputs, tie \in TieOrders :
       CoherencyBegin(rawQuery, tie)
  \/ \E tie \in TieOrders : CoherencyStore(tie)
  \/ \E rawQuery \in CoherencyInputs, tie \in TieOrders :
       CoherencySearch(rawQuery, tie)
  \/ \E id \in Deactivatable : CoherencyDeactivate(id)
  \/ \E id \in Rescorable : CoherencyRescore(id)
  \/ CoherencyInvalidate
  \/ \E key \in CoherencyKeys : CoherencyInvalidateKey(key)

SpecCoherency == InitCoherency /\ [][NextCoherency]_vars

\* C13 (coherency under invalidation): once a mutation has been followed by
\* the invalidation of a key, a request served from the cache under that
\* key gets the response that the tables as they are now give, not one
\* computed before the mutation.
C13_NoStaleHitAfterInvalidation ==
  (/\ last.op = "search"
   /\ last.out.xcache = Some("HIT")
   /\ arg.mutated
   /\ Val(last.key) \notin arg.dirty)
  => \E tie \in TieOrders :
       last.out.body =
         SearchHandler(last.input, EmptyStore, now, FALSE, restaurants,
                       foodScores, RankOf(tie, DOMAIN restaurants),
                       RankOf(tie, {f.id : f \in foodScores})).body

(***************************************************************************)
(* SpecScan: entries of the three kinds are stored, time passes, and       *)
(* cacheDeletePattern runs to completion against a working backend.  `arg` *)
(* remembers the pattern and the keyspace the last call started from.      *)
(***************************************************************************)
MaxScanOps == 5

ScanKeys ==
  CoherencyKeys
  \cup {RestaurantCacheKey(<<"a">>), RestaurantCacheKey(<<"b">>),
        RestaurantCacheKey(<<"a", "-", "b">>), AutocompleteCacheKey(Ke)}

ScanTtl(key) ==
  CASE key[1] = "search" -> SearchTtl
    [] key[1] = "restaurant" -> RestaurantTtl
    [] key[1] = "autocomplete" -> AutocompleteTtl

InitScan == Init

ScanStore(key) ==
  /\ nreq < MaxScanOps
  /\ \E r \in {cacheSet(store, key, JsStr("data"), ScanTtl(key), now,
                        redisDown)} :
       /\ store' = r.store
       /\ origin' =
            [k \in DOMAIN r.store |->
               IF k = key
               THEN [op |-> "cacheSet", input |-> key, params |-> {},
                     body |-> JsStr("data"), at |-> now, ttl |-> ScanTtl(key)]
               ELSE origin[k]]
       /\ last' = [NoOperation EXCEPT !.op = "cacheSet", !.key = Some(key),
                                      !.at = now, !.raised = r.raised]
  /\ nreq' = nreq + 1
  /\ arg' = None
  /\ UNCHANGED <<now, redisDown, restaurants, foodScores>>

ScanDeletePattern(pattern) ==
  /\ nreq < MaxScanOps
  /\ \E r \in {cacheDeletePattern(store, pattern, redisDown)} :
       /\ store' = r.store
       /\ origin' = [k \in DOMAIN r.store |-> origin[k]]
       /\ last' = [NoOperation EXCEPT !.op = "cacheDeletePattern",
                                      !.raised = r.raised]
  /\ nreq' = nreq + 1
  /\ arg' = Some([pattern |-> pattern, before |-> store])
  /\ UNCHANGED <<now, redisDown, restaurants, foodScores>>

ScanTick ==
  /\ now = 0
  /\ now' = AutocompleteTtl \div 2
  /\ arg' = None
  /\ UNCHANGED <<store, origin, redisDown, restaurants, foodScores, last, nreq>>

NextScan ==
  \/ \E key \in ScanKeys : ScanStore(key)
  \/ \E pattern \in Patterns : ScanDeletePattern(pattern)
  \/ ScanTick

SpecScan == InitScan /\ [][NextScan]_vars

\* C14 (pattern delete): after cacheDeletePattern(pattern) has run against
\* a working backend, the keys left are exactly the keys it started from
\* that do not match the pattern, each with the value and the expiry it had.
C14_DeletePatternFrame ==
  arg # None =>
    /\ DOMAIN store =
         {k \in DOMAIN Val(arg).before : k[1] # Val(arg).pattern}
    /\ \A k \in DOMAIN store :
         /\ store[k].value = Val(arg).before[k].value
         /\ store[k].expiry = Val(arg).before[k].expiry

\* A call that finds more matching keys than one SCAN returns, and leaves
\* a key of another kind.
C14_Witness ==
  /\ arg # None
  /\ Cardinality({k \in DOMAIN Val(arg).before :
                    k[1] = Val(arg).pattern}) > ScanBatch
  /\ store # EmptyStore

(***************************************************************************)
(* SpecRanking: one search, with each sort and page by page, over tables   *)
(* whose venues have equal and different scores, or none.                  *)
(***************************************************************************)
MaxRankingPage == 3
MaxRankingLimit == 2

RankingScores == {None, Some(700), Some(850)}

RankingTables ==
  {[id \in DOMAIN InitRestaurants |->
      [InitRestaurants[id] EXCEPT !.overallScore = scores[id]]] :
     scores \in [DOMAIN InitRestaurants -> RankingScores]}

RankingSorts ==
  {<<>>,
   << <<"sort_by", RawText(<<"score">>)>> >>,
   << <<"sort_by", RawText(<<"newest">>)>> >>,
   << <<"sort_by", RawText(<<"distance">>)>>, <<"lat", RawInt(41)>>,
      <<"lng", RawInt(29)>> >>}

RankingInputs ==
  {<< <<"q", RawText(Ke)>> >> \o sort
     \o << <<"page", RawInt(page)>>, <<"limit", RawInt(limit)>> >> :
     sort \in RankingSorts, page \in 1..MaxRankingPage,
     limit \in 1..MaxRankingLimit}

InitRanking ==
  /\ store = EmptyStore
  /\ origin = EmptyStore
  /\ now = 0
  /\ redisDown = FALSE
  /\ restaurants \in RankingTables
  /\ foodScores = InitFoodScores
  /\ last = NoOperation
  /\ nreq = 0
  /\ arg = None

RankingSearch(rawQuery, tie) ==
  /\ nreq = 0
  /\ SearchStep(rawQuery, tie)

NextRanking ==
  \E rawQuery \in RankingInputs, tie \in TieOrders :
    RankingSearch(rawQuery, tie)

SpecRanking == InitRanking /\ [][NextRanking]_vars

\* The page of the last search and the sort it asked for.
RankedPage == last.out.body.r.data
RankedBy == last.out.body.r.meta.sortBy
Ranked == last.op = "search" /\ last.out.status = 200

\* C17 (tie-break): in a page sorted by distance, of two neighbours at the
\* same distance the first has the higher or the same score; in a page
\* sorted by newest, of two neighbours created at the same time the first
\* has the higher or the same score.
C17_TieBreakByScore ==
  Ranked =>
    \A i \in 1..(Len(RankedPage) - 1) :
      LET a == RankedPage[i]
          b == RankedPage[i + 1]
          tied == \/ RankedBy = "distance" /\ a.distance = b.distance
                  \/ /\ RankedBy = "newest"
                     /\ restaurants[a.id].createdAt =
                          restaurants[b.id].createdAt
      IN (tied /\ IsSome(a.overallScore) /\ IsSome(b.overallScore))
           => Val(a.overallScore) >= Val(b.overallScore)

\* x comes strictly before y in descending score order, nulls last.
Better(x, y) == IsSome(x) /\ (~IsSome(y) \/ Val(x) > Val(y))

\* The venues that the page query of the last search selects from.
RankedAmong ==
  {id \in DOMAIN restaurants :
     WhereHolds(last.out.queries[1].where, restaurants[id])}

\* C18 (score sort): with sort_by=score or absent, no venue of a page comes
\* after a venue with a lower score or with no score, and the venue at
\* position g of the whole result (counted over the pages before it) has
\* fewer than g matching venues that score higher and at least g that do
\* not score lower: every page continues one descending order in which
\* the unrated venues come last.
C18_ScoreDescNullsLast ==
  (Ranked /\ last.out.xcache = Some("MISS") /\ RankedBy = "score") =>
    LET page == last.out.body.r.pagination
        offset == (page.page - 1) * page.limit
        score(i) == RankedPage[i].overallScore
    IN /\ Len(RankedPage) =
            Min(page.limit,
                IF Cardinality(RankedAmong) > offset
                THEN Cardinality(RankedAmong) - offset ELSE 0)
       /\ \A i, j \in 1..Len(RankedPage) :
            i < j => ~Better(score(j), score(i))
       /\ \A i \in 1..Len(RankedPage) :
            /\ RankedPage[i].id \in RankedAmong
            /\ score(i) = restaurants[RankedPage[i].id].overallScore
            /\ Cardinality({y \in RankedAmong :
                  Better(restaurants[y].overallScore, score(i))}) < offset + i
            /\ Cardinality({y \in RankedAmong :
                  ~Better(score(i), restaurants[y].overallScore)})
                 >= offset + i

\* The second page of a search without sort_by, holding an unrated venue
\* while rated venues are on the page before.
C18_Witness ==
  /\ Ranked
  /\ last.out.xcache = Some("MISS")
  /\ RankedBy = "score"
  /\ \A i \in 1..Len(last.input) : last.input[i][1] # "sort_by"
  /\ last.out.body.r.pagination.page = 2
  /\ \E i \in 1..Len(RankedPage) : ~IsSome(RankedPage[i].overallScore)
  /\ \E y \in RankedAmong : IsSome(restaurants[y].overallScore)

(***************************************************************************)
(* SpecValidation: one search whose q, price_range, min_score, page or     *)
(* limit lies in, on the edge of, or outside what the schema accepts.      *)
(***************************************************************************)
MaxQueryLen == 100
MaxPriceRange == 4
MaxMinScore == 10
MaxValidationPage == 3

\* A text of n characters.
Long(n) == [i \in 1..n |-> "k"]

ValidationTexts ==
  {Ke, <<"a">>, <<" ", "a">>, <<"a", " ">>, <<" ", "k", "e", " ">>,
   Long(MaxQueryLen), Long(MaxQueryLen + 1), <<" ">> \o Long(MaxQueryLen)}

\* Numerals around a range lo..hi, one that is no integer, and a word.
Around(lo, hi) ==
  {RawInt(n) : n \in (lo - 2)..(hi + 2)}
  \cup {RawDec(lo, 5), RawDec(hi, 5), RawDec(0, 5), RawText(<<"x">>)}

ValidationInputs ==
  {<< <<"q", RawText(text)>> >> : text \in ValidationTexts}
  \cup {<< <<"q", RawText(Ke)>>, <<"price_range", raw>> >> :
          raw \in Around(1, MaxPriceRange) \ {RawDec(1, 5), RawDec(0, 5)}}
  \cup {<< <<"q", RawText(Ke)>>, <<"min_score", raw>> >> :
          raw \in Around(1, MaxMinScore) \ {RawDec(1, 5)}}
  \cup {<< <<"q", RawText(Ke)>>, <<"page", raw>> >> :
          raw \in Around(1, MaxValidationPage)}
  \cup {<< <<"q", RawText(Ke)>>, <<"limit", raw>> >> :
          raw \in Around(1, MaxLimit)}
  \cup {<< <<"q", RawText(Ke)>>, <<"page", RawInt(page)>>,
            <<"limit", RawInt(limit)>> >> :
          page \in 0..2, limit \in {0, 1, 2, MaxLimit + 1}}

InitValidation == Init

ValidationSearch(rawQuery, tie) ==
  /\ nreq = 0
  /\ SearchStep(rawQuery, tie)

NextValidation ==
  \E rawQuery \in ValidationInputs, tie \in TieOrders :
    ValidationSearch(rawQuery, tie)

SpecValidation == InitValidation /\ [][NextValidation]_vars

\* C19 (q trimmed): a search that gives q alone is answered 400 exactly
\* when q without its leading and trailing blanks has fewer than 2 or more
\* than 100 characters.
C19_TrimmedBeforeValidation ==
  (last.op = "search" /\ Len(last.input) = 1) =>
    (last.out.status = 400
       <=> \/ Len(trim(Get(last.input, "q").s)) < 2
           \/ Len(trim(Get(last.input, "q").s)) > MaxQueryLen)

\* The number a raw value stands for, in tenths.
Tenths(raw) == IF raw.k = "int" THEN raw.n * 10 ELSE raw.n * 10 + raw.frac

\* A member that is present and is no integer of lo..hi.
NoIntegerIn(rawQuery, name, lo, hi) ==
  /\ Has(rawQuery, name)
  /\ ~(/\ Get(rawQuery, name).k = "int"
       /\ Get(rawQuery, name).n >= lo
       /\ Get(rawQuery, name).n <= hi)

\* A member that is present and is no number of lo..hi.
NoNumberIn(rawQuery, name, lo, hi) ==
  /\ Has(rawQuery, name)
  /\ ~(/\ Get(rawQuery, name).k \in {"int", "dec"}
       /\ Tenths(Get(rawQuery, name)) >= lo * 10
       /\ Tenths(Get(rawQuery, name)) <= hi * 10)

\* C20 (ranges): a search with q = "ke" is answered 400, without a storage
\* query, when price_range is no integer of 1..4, min_score no number of
\* 1..10, page no integer >= 1 or limit no integer of 1..50; otherwise it
\* is answered 200, and its page size is 20 when limit is absent.
C20_RangeValidation ==
  (last.op = "search" /\ Len(last.input) > 1) =>
    IF \/ NoIntegerIn(last.input, "price_range", 1, MaxPriceRange)
       \/ NoNumberIn(last.input, "min_score", 1, MaxMinScore)
       \/ /\ Has(last.input, "page")
          /\ ~(Get(last.input, "page").k = "int"
               /\ Get(last.input, "page").n >= 1)
       \/ NoIntegerIn(last.input, "limit", 1, MaxLimit)
    THEN last.out.status = 400 /\ last.out.queries = <<>>
    ELSE /\ last.out.status = 200
         /\ last.out.queries # <<>>
         /\ ~Has(last.input, "limit")
              => last.out.body.r.pagination.limit = 20
         /\ Has(last.input, "limit")
              => last.out.body.r.pagination.limit = Get(last.input, "limit").n

\* A search with limit = 50, the largest page size, answered from storage.
C20_Witness ==
  /\ last.op = "search"
  /\ Has(last.input, "limit")
  /\ Get(last.input, "limit") = RawInt(MaxLimit)
  /\ last.out.status = 200
  /\ last.out.body.r.pagination.limit = MaxLimit

(***************************************************************************)
(* SpecFilters: one search with each optional filter and each coordinate   *)
(* supplied or left out, in each sort mode.                                *)
(***************************************************************************)
FilterDistricts == {<<"K", "a">>, <<"k", "a">>, <<>>}
FilterLats == {0, 41}
FilterLngs == {0, 29}

\* The member `name` with each of `raws`, or left out.
Optional(name, raws) == {<<>>} \cup {<< <<name, raw>> >> : raw \in raws}

FilterInputs ==
  {<< <<"q", RawText(Ke)>> >> \o district \o cuisine \o price \o score
     \o sort \o lat \o lng :
     district \in Optional("district", {RawText(d) : d \in FilterDistricts}),
     cuisine \in Optional("cuisine", {RawText(<<"kebap">>)}),
     price \in Optional("price_range", {RawInt(2)}),
     score \in Optional("min_score", {RawInt(8)}),
     sort \in Optional("sort_by", {RawText(<<"distance">>),
                                   RawText(<<"newest">>)}),
     lat \in Optional("lat", {RawInt(n) : n \in FilterLats}),
     lng \in Optional("lng", {RawInt(n) : n \in FilterLngs})}

InitFilters == Init

FilterSearch(rawQuery, tie) ==
  /\ nreq = 0
  /\ SearchStep(rawQuery, tie)

NextFilters ==
  \E rawQuery \in FilterInputs, tie \in TieOrders :
    FilterSearch(rawQuery, tie)

SpecFilters == InitFilters /\ [][NextFilters]_vars

\* What the request gave for a member: its text, its number, or nothing.
Given(rawQuery, name) ==
  IF ~Has(rawQuery, name) THEN None
  ELSE IF Get(rawQuery, name).k = "int" THEN Some(Get(rawQuery, name).n)
  ELSE IF name = "cuisine" THEN Some(Get(rawQuery, name).s[1])
  ELSE Some(Get(rawQuery, name).s)

\* C21 (filters echoed): in the body of a search answered 200, each of
\* meta.appliedFilters.district, cuisine, priceRange and minScore is the
\* value the request gave, and null when the request gave none.
C21_FiltersEchoed ==
  (last.op = "search" /\ last.out.status = 200) =>
    LET applied == last.out.body.r.meta.appliedFilters
    IN /\ applied.district = Given(last.input, "district")
       /\ applied.cuisine = Given(last.input, "cuisine")
       /\ applied.priceRange = Given(last.input, "price_range")
       /\ applied.minScore = Given(last.input, "min_score")

\* A search that gives a district in mixed case and a price range and
\* leaves cuisine and min_score out.
C21_Witness ==
  /\ last.op = "search"
  /\ last.out.status = 200
  /\ last.out.body.r.meta.appliedFilters.district = Some(<<"K", "a">>)
  /\ last.out.body.r.meta.appliedFilters.priceRange = Some(2)
  /\ last.out.body.r.meta.appliedFilters.cuisine = None
  /\ last.out.body.r.meta.appliedFilters.minScore = None
  /\ Len(last.out.body.r.data) > 0

MaxVenues == 23
MaxSnapshotPage == 4

SnapshotDistrict == <<"k", "a">>

\* Venues 1..n match; of the others, the even ones are inactive and the
\* odd ones lie in another district.
SnapshotTable(n) ==
  [id \in 1..MaxVenues |->
     [InitRestaurants[1] EXCEPT
        !.district = IF id <= n \/ id % 2 = 0 THEN Some(SnapshotDistrict)
                     ELSE Some(<<"x">>),
        !.isActive = id <= n \/ id % 2 = 1,
        !.overallScore = Some(800 + (id % 3)),
        !.slug = <<"a", "-", "b">>]]

SnapshotInputs ==
  {<< <<"q", RawText(Ke)>>, <<"district", RawText(SnapshotDistrict)>>,
      <<"page", RawInt(page)>> >> \o limit :
     page \in 1..MaxSnapshotPage,
     limit \in Optional("limit", {RawInt(1), RawInt(10), RawInt(MaxLimit)})}

InitSnapshot ==
  /\ store = EmptyStore
  /\ origin = EmptyStore
  /\ now = 0
  /\ redisDown = FALSE
  /\ restaurants \in {SnapshotTable(n) : n \in 0..MaxVenues}
  /\ foodScores = InitFoodScores
  /\ last = NoOperation
  /\ nreq = 0
  /\ arg = None

SnapshotSearch(rawQuery, tie) ==
  /\ nreq = 0
  /\ SearchStep(rawQuery, tie)

NextSnapshot ==
  \E rawQuery \in SnapshotInputs, tie \in TieOrders :
    SnapshotSearch(rawQuery, tie)

SpecSnapshot == InitSnapshot /\ [][NextSnapshot]_vars

\* The venues of the table that are active, match "ke" and lie in the
\* district asked for.
Matching ==
  {id \in DOMAIN restaurants :
     /\ restaurants[id].isActive
     /\ Ke \in restaurants[id].matches
     /\ restaurants[id].district = Some(SnapshotDistrict)}

\* C23 (page size): with N matching venues, page p with limit L has
\* min(L, max(0, N - (p-1)*L)) rows, all of them different matching venues,
\* and pagination.total is N; with N = 23, L = 10 and p = 1 that is 10
\* rows, total 23, totalPages 3 and hasNext true.
C23_PageRows ==
  (last.op = "search" /\ last.out.status = 200) =>
    LET page == last.out.body.r.pagination
        rows == last.out.body.r.data
        N == Cardinality(Matching)
        left == N - (page.page - 1) * page.limit
    IN /\ Len(rows) = Min(page.limit, IF left > 0 THEN left ELSE 0)
       /\ Cardinality({rows[i].id : i \in 1..Len(rows)}) = Len(rows)
       /\ \A i \in 1..Len(rows) : rows[i].id \in Matching
       /\ page.total = N
       /\ (N = 23 /\ page.limit = 10 /\ page.page = 1) =>
            /\ Len(rows) = 10
            /\ page.totalPages = 3
            /\ page.hasNext

\* The third page of 23 matching venues with limit 10: its last 3 rows.
C23_Witness ==
  /\ last.op = "search"
  /\ last.out.status = 200
  /\ Cardinality(Matching) = 23
  /\ last.out.body.r.pagination.page = 3
  /\ last.out.body.r.pagination.limit = 10
  /\ Len(last.out.body.r.data) = 3

(***************************************************************************)
(* SpecIdempotence: requests follow one another on tables that do not      *)
(* change, while time passes and the cache backend goes away and comes     *)
(* back; nothing invalidates.                                              *)
(***************************************************************************)
MaxIdempotenceRequests == 3

IdempotenceInputs ==
  {<< <<"q", RawText(Ke)>> >>,
   << <<"q", RawText(Ke)>>, <<"limit", RawInt(1)>> >>}

IdempotenceSearch(rawQuery, tie) ==
  /\ nreq < MaxIdempotenceRequests
  /\ SearchStep(rawQuery, tie)

IdempotenceTick ==
  /\ now < SearchTtl
  /\ now' = now + SearchTtl \div 2
  /\ UNCHANGED <<store, origin, redisDown, restaurants, foodScores, last, nreq,
                 arg>>

NextIdempotence ==
  \/ \E rawQuery \in IdempotenceInputs, tie \in TieOrders :
       IdempotenceSearch(rawQuery, tie)
  \/ IdempotenceTick
  \/ BackendFails
  \/ BackendRecovers

SpecIdempotence == Init /\ [][NextIdempotence]_vars

\* C24 (idempotence): when two searches with the same parameters follow
\* one another and both are served from the cache, or both from storage
\* with nothing stored by the first (the backend being away), the second
\* gets the body the first got.
C24_LookupIdempotent ==
  [][(/\ IsRequestStep
      /\ last.op = "search" /\ last'.op = "search"
      /\ last.out.status = 200 /\ last'.out.status = 200
      /\ last'.params = last.params
      /\ \/ last.out.xcache = Some("HIT") /\ last'.out.xcache = Some("HIT")
         \/ /\ last.out.xcache = Some("MISS") /\ last'.out.xcache = Some("MISS")
            /\ last.down /\ last'.down)
     => last'.out.body = last.out.body]_vars

(***************************************************************************)
(* SpecRace: several searches are in flight at once on tables that do not  *)
(* change.  Each finds no entry and reads storage (lines 230-441), and     *)
(* stores its response and replies later (lines 442-444).  `arg` holds the *)
(* requests in flight and the <<key, body>> pairs replied so far.          *)
(***************************************************************************)
MaxRacers == 3

InitRace ==
  /\ store = EmptyStore
  /\ origin = EmptyStore
  /\ now = 0
  /\ redisDown = FALSE
  /\ restaurants = InitRestaurants
  /\ foodScores = InitFoodScores
  /\ last = NoOperation
  /\ nreq = 0
  /\ arg = [pending |-> <<>>, replied |-> {}]

RaceBegin(rawQuery, tie) ==
  /\ nreq + Len(arg.pending) < MaxRacers
  /\ \E rank \in {RankOf(tie, DOMAIN restaurants)},
        drank \in {RankOf(tie, {f.id : f \in foodScores})},
        query \in {SearchQueryParse(rawQuery)} :
       \E cached \in {cacheGet(store, SearchCacheKey(query), now, redisDown)},
          found \in {SearchResponse(restaurants, foodScores, query, rank,
                                    drank, {})} :
         /\ ~Truthy(cached.value)
         /\ ~found.raised
         /\ store' = cached.store
         /\ origin' = [k \in DOMAIN cached.store |-> origin[k]]
         /\ arg' = [arg EXCEPT !.pending =
                      Append(@, [rawQuery |-> rawQuery,
                                 cacheKey |-> SearchCacheKey(query),
                                 found |-> found])]
  /\ UNCHANGED <<now, redisDown, restaurants, foodScores, last, nreq>>

RaceStore(i) ==
  /\ i \in 1..Len(arg.pending)
  /\ \E p \in {arg.pending[i]} :
       \E set \in {cacheSet(store, p.cacheKey, p.found.response, SearchTtl,
                            now, redisDown)} :
         /\ store' = set.store
         /\ origin' =
              [k \in DOMAIN set.store |->
                 IF k = p.cacheKey
                 THEN [op |-> "search", input |-> p.rawQuery,
                       params |-> SearchParams(p.rawQuery),
                       body |-> p.found.response, at |-> now,
                       ttl |-> SearchTtl]
                 ELSE origin[k]]
         /\ last' = [NoOperation EXCEPT
                       !.op = "search", !.input = p.rawQuery,
                       !.params = SearchParams(p.rawQuery),
                       !.key = Some(p.cacheKey), !.at = now,
                       !.out = Looked(p.cacheKey,
                                      Outcome(200, Some("MISS"),
                                              p.found.response, EmptyStore,
                                              p.found.queries,
                                              << [key |-> p.cacheKey,
                                                  ttl |-> SearchTtl] >>))]
         /\ arg' = [pending |-> [j \in 1..(Len(arg.pending) - 1) |->
                                   IF j < i THEN arg.pending[j]
                                   ELSE arg.pending[j + 1]],
                    replied |-> arg.replied
                                \cup {<<p.cacheKey, p.found.response>>}]
  /\ nreq' = nreq + 1
  /\ UNCHANGED <<now, redisDown, restaurants, foodScores>>

RaceTick ==
  /\ now = 0
  /\ now' = 1
  /\ UNCHANGED <<store, origin, redisDown, restaurants, foodScores, last, nreq,
                 arg>>

NextRace ==
  \/ \E rawQuery \in IdempotenceInputs, tie \in TieOrders :
       RaceBegin(rawQuery, tie)
  \/ \E i \in 1..MaxRacers : RaceStore(i)
  \/ RaceTick

SpecRace == InitRace /\ [][NextRace]_vars

\* C25 (idempotent stores): the searches that raced on a miss of one key
\* have all replied the same body, and once none is in flight the entry
\* under the key holds that body.
C25_RacingStoresAgree ==
  /\ \A x, y \in arg.replied : x[1] = y[1] => x[2] = y[2]
  /\ arg.pending = <<>> =>
       \A x \in arg.replied :
         x[1] \in DOMAIN store => store[x[1]].value = JSONstringify(x[2])

(***************************************************************************)
(* Dish detail.  The route reads the dishes, food_scores, restaurants and  *)
(* food_mentions tables and calls no cache helper.                         *)
(***************************************************************************)
\* lower(unaccent(name)) on the names of the fixtures.
lowerUnaccent(name) ==
  CASE name = "Adana" -> "adana"
    [] name = "Beyti" -> "beyti"
    [] name = "Urfa" -> "urfa"
    [] OTHER -> name

\* The food_mentions table: the mentions of dishes found in the reviews.
FoodMentions ==
  {[id |-> 1, canonicalName |-> "adana", sentiment |-> "positive"],
   [id |-> 2, canonicalName |-> "Adana", sentiment |-> "positive"],
   [id |-> 3, canonicalName |-> "adana", sentiment |-> "negative"],
   [id |-> 4, canonicalName |-> "beyti", sentiment |-> "neutral"]}

\* select ... from food_scores inner join restaurants where
\* lower(unaccent(food_name)) = lower(unaccent(canonicalName)) and is_active
\* order by score desc
DishScoresQuery(R, F, canonicalName, drank) ==
  LET rows == {f \in F :
                 /\ lowerUnaccent(f.foodName) = lowerUnaccent(canonicalName)
                 /\ f.restaurantId \in DOMAIN R
                 /\ R[f.restaurantId].isActive}
      LessThan(a, b) ==
        \/ Val(a.score) > Val(b.score)
        \/ Val(a.score) = Val(b.score) /\ drank[a.id] < drank[b.id]
  IN SortSet(rows, LessThan)

\* count(*) FILTER (WHERE sentiment = ...) over the mentions of the dish.
SentimentCount(M, canonicalName, sentiment) ==
  Cardinality({m \in M :
                 /\ lowerUnaccent(m.canonicalName) = lowerUnaccent(canonicalName)
                 /\ sentiment \in {m.sentiment, "any"}})

RECURSIVE SumOf(_)
SumOf(s) == IF s = <<>> THEN 0 ELSE s[1] + SumOf(Tail(s))

RECURSIVE MaxOf(_)
MaxOf(s) ==
  IF Len(s) = 1 THEN s[1]
  ELSE IF s[1] >= MaxOf(Tail(s)) THEN s[1] ELSE MaxOf(Tail(s))

RECURSIVE MinOf(_)
MinOf(s) ==
  IF Len(s) = 1 THEN s[1]
  ELSE IF s[1] <= MinOf(Tail(s)) THEN s[1] ELSE MinOf(Tail(s))

\* Math.round((sum / length) * 100) / 100 on scores kept in hundredths.
AvgScore(scores) ==
  (2 * SumOf(scores) + Len(scores)) \div (2 * Len(scores))

\* GET /api/v1/dishes/:slug, with the storage queries of `fails` raising.
\* The query by slug is awaited first, the other two are started together.
\* The reply carries no X-Cache header.
DishHandlerOn(slug, st, D, R, F, M, drank, fails) ==
  IF ~SlugValid(slug) THEN ValidationReply(st)
  ELSE
    Bind([table |-> "dishes", select |-> "dish_by_slug", slug |-> slug],
         LAMBDA bySlug :
    Bind({d \in D : d.slug = slug}, LAMBDA dishResult :
      IF Rejects(fails, {"dish_by_slug"})
      THEN InternalErrorReply(st, <<bySlug>>)
      ELSE IF dishResult = {}
      THEN Outcome(404, None,
                   JsRec([statusCode |-> 404, error |-> "Not Found",
                          message |-> <<"Yemek bulunamadi: ", slug>>]),
                   st, <<bySlug>>, <<>>)
      ELSE
        Bind(CHOOSE d \in dishResult : TRUE, LAMBDA dish :
        Bind(IF IsSome(dish.canonicalName) THEN Val(dish.canonicalName)
             ELSE dish.name,
             LAMBDA canonicalName :
        Bind(<< bySlug,
                [table |-> "food_scores", select |-> "dish_scores",
                 canonicalName |-> canonicalName],
                [table |-> "food_mentions", select |-> "dish_sentiment",
                 canonicalName |-> canonicalName] >>,
             LAMBDA queries :
          IF Rejects(fails, {"dish_scores", "dish_sentiment"})
          THEN InternalErrorReply(st, queries)
          ELSE
            Bind(DishScoresQuery(R, F, canonicalName, drank),
                 LAMBDA restaurantScores :
            Bind([i \in 1..Len(restaurantScores) |->
                    Val(restaurantScores[i].score)],
                 LAMBDA scores :
              Outcome(200, None,
                JsRec([dish |->
                         [name |-> dish.name, slug |-> dish.slug,
                          canonicalName |-> dish.canonicalName,
                          category |-> dish.category],
                       restaurants |->
                         [i \in 1..Len(restaurantScores) |->
                            Bind(restaurantScores[i], LAMBDA r :
                              [name |-> R[r.restaurantId].name,
                               slug |-> R[r.restaurantId].slug,
                               district |-> R[r.restaurantId].district,
                               score |-> Val(r.score),
                               reviewCount |-> r.reviewCount])],
                       stats |->
                         [avgScore |-> IF Len(scores) > 0
                                       THEN Some(AvgScore(scores)) ELSE None,
                          maxScore |-> IF Len(scores) > 0
                                       THEN Some(MaxOf(scores)) ELSE None,
                          minScore |-> IF Len(scores) > 0
                                       THEN Some(MinOf(scores)) ELSE None,
                          totalReviews |->
                            SumOf([i \in 1..Len(restaurantScores) |->
                                     restaurantScores[i].reviewCount])],
                       sentimentSummary |->
                         [positive |->
                            SentimentCount(M, canonicalName, "positive"),
                          negative |->
                            SentimentCount(M, canonicalName, "negative"),
                          neutral |->
                            SentimentCount(M, canonicalName, "neutral"),
                          total |->
                            SentimentCount(M, canonicalName, "any")]]),
                st, queries, <<>>))))))))

\* GET /api/v1/dishes/:slug while storage answers every query.
DishHandler(slug, st, D, R, F, M, drank) ==
  DishHandlerOn(slug, st, D, R, F, M, drank, {})

(***************************************************************************)
(* SpecEndpoints: requests to the four data endpoints, in any order, while *)
(* the cache backend comes and goes.                                       *)
(***************************************************************************)
MaxEndpointRequests == 2

EndpointSlugs ==
  {<<"a">>, <<"b">>, <<"c">>, <<"A">>, <<"a", "!">>, <<"-", "a">>,
   <<"a", "-">>, <<"a", "-", "-", "b">>, <<"a", "-", "b">>}

EndpointSearch(rawQuery, tie) ==
  /\ nreq < MaxEndpointRequests
  /\ SearchStep(rawQuery, tie)

EndpointAutocomplete(rawQuery, tie) ==
  /\ nreq < MaxEndpointRequests
  /\ \E rank \in {RankOf(tie, DOMAIN restaurants)} :
     \E out \in {AutocompleteHandler(rawQuery, store, now, redisDown,
                                     restaurants, foodScores, Dishes, rank)} :
       Respond("autocomplete", rawQuery, Range(rawQuery), None, out, out, {})

EndpointRestaurant(slug, tie) ==
  /\ nreq < MaxEndpointRequests
  /\ \E drank \in {RankOf(tie, {f.id : f \in foodScores})} :
     \E out \in {RestaurantHandler(slug, store, now, redisDown, restaurants,
                                   foodScores, drank)} :
       Respond("restaurant", slug, {<<"slug", slug>>}, None, out, out, {})

EndpointDish(slug, tie) ==
  /\ nreq < MaxEndpointRequests
  /\ \E drank \in {RankOf(tie, {f.id : f \in foodScores})} :
     \E out \in {DishHandler(slug, store, Dishes, restaurants, foodScores,
                             FoodMentions, drank)} :
       Respond("dish", slug, {<<"slug", slug>>}, None, out, out, {})

NextEndpoints ==
  \/ \E rawQuery \in SearchInputs, tie \in TieOrders :
       EndpointSearch(rawQuery, tie)
  \/ \E rawQuery \in AutocompleteInputs, tie \in TieOrders :
       EndpointAutocomplete(rawQuery, tie)
  \/ \E slug \in EndpointSlugs, tie \in TieOrders :
       EndpointRestaurant(slug, tie)
  \/ \E slug \in EndpointSlugs, tie \in TieOrders : EndpointDish(slug, tie)
  \/ BackendFails
  \/ BackendRecovers

SpecEndpoints == Init /\ [][NextEndpoints]_vars

\* C26 (X-Cache on every endpoint): a request to search, restaurant detail,
\* dish detail or autocomplete that is answered 200 carries an X-Cache
\* header, and its value is HIT or MISS.
C26_XCacheOnEverySuccess ==
  (last.op \in {"search", "restaurant", "dish", "autocomplete"}
     /\ last.out.status = 200)
    => last.out.xcache \in {Some("HIT"), Some("MISS")}

(***************************************************************************)
(* SpecActivation: restaurant-detail requests while the owner of a venue   *)
(* deactivates it and time passes.                                         *)
(***************************************************************************)
MaxActivationRequests == 3

ActivationSlugs == {<<"a">>, <<"b">>, <<"c">>}

ActivationRestaurant(slug, tie) ==
  /\ nreq < MaxActivationRequests
  /\ \E drank \in {RankOf(tie, {f.id : f \in foodScores})} :
     \E out \in {RestaurantHandler(slug, store, now, redisDown, restaurants,
                                   foodScores, drank)},
        ref \in {RestaurantHandler(slug, EmptyStore, now, FALSE, restaurants,
                                   foodScores, drank)} :
       Respond("restaurant", slug, {<<"slug", slug>>},
               Some(RestaurantCacheKey(slug)), out, ref, {})

NextActivation ==
  \/ \E slug \in ActivationSlugs, tie \in TieOrders :
       ActivationRestaurant(slug, tie)
  \/ \E id \in DOMAIN restaurants : Deactivate(id)
  \/ \E d \in TickSteps : Tick(d)

SpecActivation == Init /\ [][NextActivation]_vars

\* The slug names an active venue of the table.
ActiveSlug(R, slug) == \E id \in DOMAIN R : R[id].slug = slug /\ R[id].isActive

\* C27 (inactive venues are not served): a restaurant-detail request whose
\* slug names no active venue of the table at the time of the request is
\* answered 404, also when the venue was served before it was deactivated.
C27_InactiveNotServed ==
  [][(nreq' = nreq + 1 /\ last'.op = "restaurant"
        /\ ~ActiveSlug(restaurants, last'.input))
       => last'.out.status = 404]_vars

\* The automaton of ^[a-z0-9]+(?:-[a-z0-9]+)*$ after reading the slug:
\* "word" after a letter or digit, "gap" at the start and after a hyphen,
\* "dead" once the slug cannot match.  The pattern matches in "word".
RECURSIVE SlugState(_)
SlugState(slug) ==
  IF slug = <<>> THEN "gap"
  ELSE Bind(SlugState(SubSeq(slug, 1, Len(slug) - 1)), LAMBDA before :
         IF before = "dead" THEN "dead"
         ELSE IF slug[Len(slug)] \in SlugChars THEN "word"
         ELSE IF slug[Len(slug)] = "-" /\ before = "word" THEN "gap"
         ELSE "dead")

\* C28 (slug format): a restaurant-detail or dish-detail request whose slug
\* does not match the pattern is answered 400, and the handler has made no
\* cache lookup, no cache store and no storage query for it.
C28_BadSlugRejectedFirst ==
  (last.op \in {"restaurant", "dish"} /\ SlugState(last.input) # "word")
    => /\ last.out.status = 400
       /\ last.out.reads = <<>>
       /\ last.out.writes = <<>>
       /\ last.out.queries = <<>>

\* A dish-detail request with a doubled hyphen has been rejected.
C28_Witness ==
  /\ last.op = "dish"
  /\ last.input = <<"a", "-", "-", "b">>
  /\ last.out.status = 400

(***************************************************************************)
(* SpecSuggest: autocomplete requests whose q is missing, empty, short,    *)
(* padded with spaces or written in another letter case, while time passes *)
(* and the cache backend comes and goes.                                   *)
(***************************************************************************)
MaxSuggestRequests == 2

SuggestTexts ==
  {<<>>, <<"k">>, Ke, <<"K", "e">>, <<" ", "k", "e">>, <<" ", "k">>,
   <<" ", " ">>, Ba}

SuggestInputs == {<<>>} \cup {<< <<"q", RawText(q)>> >> : q \in SuggestTexts}

SuggestRequest(rawQuery, tie) ==
  /\ nreq < MaxSuggestRequests
  /\ \E rank \in {RankOf(tie, DOMAIN restaurants)} :
     \E out \in {AutocompleteHandler(rawQuery, store, now, redisDown,
                                     restaurants, foodScores, Dishes, rank)},
        ref \in {AutocompleteHandler(rawQuery, EmptyStore, now, FALSE,
                                     restaurants, foodScores, Dishes, rank)} :
       Respond("autocomplete", rawQuery, Range(rawQuery), None, out, ref, {})

SuggestTick ==
  /\ now < 2 * AutocompleteTtl
  /\ now' = now + AutocompleteTtl \div 2 + 1
  /\ UNCHANGED <<store, origin, redisDown, restaurants, foodScores, last, nreq,
                 arg>>

NextSuggest ==
  \/ \E rawQuery \in SuggestInputs, tie \in TieOrders :
       SuggestRequest(rawQuery, tie)
  \/ SuggestTick
  \/ BackendFails
  \/ BackendRecovers

SpecSuggest == Init /\ [][NextSuggest]_vars

\* C29 (autocomplete text of 2 characters): an autocomplete request whose q
\* is missing, empty or shorter than 2 characters is answered 400, and the
\* text in the cache key looked up and in every storage query of a request
\* has at least 2 characters.
C29_TextAtLeastTwo ==
  last.op = "autocomplete" =>
    /\ (~Has(last.input, "q") \/ Len(Get(last.input, "q").s) < 2)
         => last.out.status = 400
    /\ \A i \in 1..Len(last.out.reads) : Len(last.out.reads[i][2]) >= 2
    /\ \A i \in 1..Len(last.out.queries) : Len(last.out.queries[i].q) >= 2

\* q lower-cased and trimmed.
NormalizedQ(rawQuery) == trim(toLowerCase(Get(rawQuery, "q").s))

\* The entries of the cache that an autocomplete request with this
\* normalized q wrote and that have not expired.
SuggestEntries(q) ==
  {k \in DOMAIN store :
     /\ origin[k].op = "autocomplete"
     /\ NormalizedQ(origin[k].input) = q
     /\ ~(IsSome(store[k].expiry) /\ now > Val(store[k].expiry))}

\* C30 (autocomplete cache key): an autocomplete request that passes
\* validation looks up the key autocomplete:{q lower-cased and trimmed};
\* while the backend works it is answered from the entry that a request
\* with the same normalized q left, whatever the letter case and the
\* surrounding spaces of the two, and a request answered from an entry has
\* the normalized q of the request that wrote the entry.
C30_KeyIsNormalizedQ ==
  [][(nreq' = nreq + 1 /\ last'.op = "autocomplete"
        /\ last'.out.status # 400)
       => /\ last'.out.reads = << <<"autocomplete", NormalizedQ(last'.input)>> >>
          /\ (~redisDown /\ SuggestEntries(NormalizedQ(last'.input)) # {})
               => last'.out.xcache = Some("HIT")
          /\ last'.out.xcache = Some("HIT")
               => /\ last'.out.reads[1] \in DOMAIN origin
                  /\ NormalizedQ(origin[last'.out.reads[1]].input)
                       = NormalizedQ(last'.input)]_vars

\* A request has been answered from the entry that a request with another
\* spelling of the same q wrote.
C30_Witness ==
  /\ last.op = "autocomplete"
  /\ last.out.xcache = Some("HIT")
  /\ last.out.reads[1] \in DOMAIN origin
  /\ origin[last.out.reads[1]].input # last.input

\* C31 (dish rows of the page only): every entry of a venue's topDishes is
\* a row of the food_scores table whose venue id is that venue's id, and the
\* dish query of the request asks for the venue ids of the returned page and
\* for no other.
C31_DishRowsOfPageOnly ==
  (last.op = "search" /\ last.out.xcache = Some("MISS")) =>
    /\ \A i \in 1..Len(last.out.body.r.data) :
         \A j \in 1..Len(last.out.body.r.data[i].topDishes) :
           \E f \in foodScores :
             /\ f.restaurantId = last.out.body.r.data[i].id
             /\ f.foodName = last.out.body.r.data[i].topDishes[j].foodName
             /\ Val(f.score) = last.out.body.r.data[i].topDishes[j].score
             /\ f.reviewCount
                  = last.out.body.r.data[i].topDishes[j].reviewCount
    /\ \A k \in 1..Len(last.out.queries) :
         last.out.queries[k].table = "food_scores" =>
           last.out.queries[k].restaurantIds
             = {last.out.body.r.data[i].id :
                  i \in 1..Len(last.out.body.r.data)}

\* A page of one venue with dishes, while a venue that is not on the page
\* has dishes too.
C31_Witness ==
  /\ last.op = "search"
  /\ last.out.xcache = Some("MISS")
  /\ Len(last.out.body.r.data) = 1
  /\ Len(last.out.body.r.data[1].topDishes) > 0
  /\ \E f \in foodScores : f.restaurantId # last.out.body.r.data[1].id
  /\ \E k \in 1..Len(last.out.queries) :
       last.out.queries[k].table = "food_scores"

(***************************************************************************)
(* SpecReads: the storage reads of a search, one step per query issued and *)
(* per query settled.  `arg` holds the request in progress: its phase, the *)
(* queries issued so far, those that resolved and those that were rejected.*)
(***************************************************************************)
MaxReadRequests == 2

\* A search with rows, one without a match, one for a page past the last.
ReadInputs ==
  {<< <<"q", RawText(Ke)>> >>,
   << <<"q", RawText(<<"z", "z">>)>> >>,
   << <<"q", RawText(Ke)>>, <<"page", RawInt(2)>> >>}

InitReads ==
  /\ store = EmptyStore
  /\ origin = EmptyStore
  /\ now = 0
  /\ redisDown = FALSE
  /\ restaurants = InitRestaurants
  /\ foodScores = InitFoodScores
  /\ last = NoOperation
  /\ nreq = 0
  /\ arg = [phase |-> "idle", rawQuery |-> <<>>, tie |-> "asc",
            issued |-> <<>>, resolved |-> {}, rejected |-> {},
            restaurantIds |-> {}]

\* The handler up to its Promise.all: validation, cacheGet and, on a miss,
\* the page and the count query started together.
ReadsBegin(rawQuery, tie) ==
  /\ arg.phase = "idle"
  /\ nreq < MaxReadRequests
  /\ \E rank \in {RankOf(tie, DOMAIN restaurants)},
        drank \in {RankOf(tie, {f.id : f \in foodScores})} :
     \E query \in {SearchQueryParse(rawQuery)} :
     \E cached \in {cacheGet(store, SearchCacheKey(query), now, redisDown)},
        found \in {SearchResponse(restaurants, foodScores, query, rank, drank,
                                  {})} :
       arg' = IF Truthy(cached.value)
              THEN [phase |-> "replying", rawQuery |-> rawQuery, tie |-> tie,
                    issued |-> <<>>, resolved |-> {}, rejected |-> {},
                    restaurantIds |-> {}]
              ELSE [phase |-> "awaiting", rawQuery |-> rawQuery, tie |-> tie,
                    issued |-> <<"page", "count">>, resolved |-> {},
                    rejected |-> {},
                    restaurantIds |->
                      {found.response.r.data[i].id :
                         i \in 1..Len(found.response.r.data)}]
  /\ UNCHANGED <<store, origin, now, redisDown, restaurants, foodScores, last,
                 nreq>>

\* Storage answers one of the queries in flight.
ReadsResolve(select) ==
  /\ arg.phase \in {"awaiting", "dishes"}
  /\ select \in Range(arg.issued) \ (arg.resolved \cup arg.rejected)
  /\ arg' = [arg EXCEPT !.resolved = @ \cup {select}]
  /\ UNCHANGED <<store, origin, now, redisDown, restaurants, foodScores, last,
                 nreq>>

\* Storage rejects one of the queries in flight: the await raises.
ReadsReject(select) ==
  /\ arg.phase \in {"awaiting", "dishes"}
  /\ select \in Range(arg.issued) \ (arg.resolved \cup arg.rejected)
  /\ arg' = [arg EXCEPT !.rejected = @ \cup {select}, !.phase = "replying"]
  /\ UNCHANGED <<store, origin, now, redisDown, restaurants, foodScores, last,
                 nreq>>

\* The handler resumes after its Promise.all and issues the dish query, or
\* skips it when the page has no rows.
ReadsResume ==
  /\ arg.phase = "awaiting"
  /\ PromiseAllResolved(arg.resolved, {"page", "count"})
  /\ arg' = IF TopDishesIssued(arg.restaurantIds)
            THEN [arg EXCEPT !.issued = Append(@, "top_dishes"),
                             !.phase = "dishes"]
            ELSE [arg EXCEPT !.phase = "replying"]
  /\ UNCHANGED <<store, origin, now, redisDown, restaurants, foodScores, last,
                 nreq>>

\* The handler resumes after the dish query, or after a rejection or a hit,
\* and replies.
ReadsReply ==
  /\ \/ arg.phase = "replying"
     \/ arg.phase = "dishes" /\ "top_dishes" \in arg.resolved
  /\ \E rank \in {RankOf(arg.tie, DOMAIN restaurants)},
        drank \in {RankOf(arg.tie, {f.id : f \in foodScores})} :
       \E out \in {SearchHandlerOn(arg.rawQuery, store, now, redisDown,
                                   restaurants, foodScores, rank, drank,
                                   arg.rejected)} :
         /\ store' = out.store
         /\ origin' = [k \in DOMAIN out.store |->
                         IF \A i \in 1..Len(out.writes) : out.writes[i].key # k
                         THEN origin[k]
                         ELSE [op |-> "search", input |-> arg.rawQuery,
                               params |-> SearchParams(arg.rawQuery),
                               body |-> out.body, at |-> now,
                               ttl |-> SearchTtl]]
         /\ last' = [NoOperation EXCEPT
                       !.op = "search", !.input = arg.rawQuery,
                       !.params = SearchParams(arg.rawQuery), !.at = now,
                       !.fails = arg.rejected,
                       !.out = [out EXCEPT !.store = EmptyStore]]
  /\ arg' = [arg EXCEPT !.phase = "idle"]
  /\ nreq' = nreq + 1
  /\ UNCHANGED <<now, redisDown, restaurants, foodScores>>

ReadsTick ==
  /\ arg.phase = "idle"
  /\ now = 0
  /\ now' = SearchTtl + 1
  /\ UNCHANGED <<store, origin, redisDown, restaurants, foodScores, last, nreq,
                 arg>>

NextReads ==
  \/ \E rawQuery \in ReadInputs, tie \in TieOrders : ReadsBegin(rawQuery, tie)
  \/ \E select \in {"page", "count", "top_dishes"} : ReadsResolve(select)
  \/ \E select \in {"page", "count", "top_dishes"} : ReadsReject(select)
  \/ ReadsResume
  \/ ReadsReply
  \/ ReadsTick

SpecReads == InitReads /\ [][NextReads]_vars

\* C32 (order of storage reads): whenever the dish query of a search has
\* been issued, the page query and the count query have both resolved and
\* the page has rows; the queries of the reply are those issued, in order.
C32_DishQueryAfterBoth ==
  /\ "top_dishes" \in Range(arg.issued)
       => /\ {"page", "count"} \subseteq arg.resolved
          /\ arg.restaurantIds # {}
          /\ arg.issued = <<"page", "count", "top_dishes">>
  /\ (arg.phase = "idle" /\ last.op = "search")
       => /\ arg.issued = [k \in 1..Len(last.out.queries) |->
                             last.out.queries[k].select]
          /\ (last.out.status = 200 /\ last.out.xcache = Some("MISS")
                /\ last.out.body.r.data = <<>>)
               => "top_dishes" \notin Range(arg.issued)

\* The dish query is in flight after the count query resolved before the
\* page query did.
C32_Witness ==
  /\ arg.phase = "dishes"
  /\ "top_dishes" \in Range(arg.issued)
  /\ "top_dishes" \notin arg.resolved

\* A reply for a page without rows, the count being positive.
C32_WitnessEmptyPage ==
  /\ arg.phase = "idle"
  /\ last.op = "search"
  /\ last.out.status = 200
  /\ last.out.xcache = Some("MISS")
  /\ last.out.body.r.data = <<>>
  /\ last.out.body.r.pagination.total > 0

(***************************************************************************)
(* SpecSentiment: the sentiment summary of the restaurant detail for every *)
(* small aggregate row.  The quotients are exact: below 40 analysed        *)
(* mentions a percentage ends in .5 only for eighths, which the floating   *)
(* point division represents exactly.                                      *)
(***************************************************************************)
MaxAnalyzed == 8

\* Math.round((count / total) * 100)
RoundPercent(count, total) == (200 * count + total) \div (2 * total)

\* The sentimentSummary block computed from sentimentAgg[0].
SentimentSummary(totalAnalyzed, positiveCount, negativeCount) ==
  Bind(IF totalAnalyzed > 0 THEN RoundPercent(positiveCount, totalAnalyzed)
       ELSE 0,
       LAMBDA positivePerc :
  Bind(IF totalAnalyzed > 0 THEN RoundPercent(negativeCount, totalAnalyzed)
       ELSE 0,
       LAMBDA negativePerc :
  Bind(IF totalAnalyzed > 0 THEN 100 - positivePerc - negativePerc ELSE 0,
       LAMBDA neutralPerc :
    [totalAnalyzed |-> totalAnalyzed,
     overallSentiment |->
       IF positivePerc >= 60 THEN "positive"
       ELSE IF negativePerc >= 40 THEN "negative"
       ELSE IF totalAnalyzed = 0 THEN "neutral"
       ELSE "mixed",
     distribution |-> [positive |-> positivePerc,
                       negative |-> negativePerc,
                       neutral |-> neutralPerc]])))

InitSentiment ==
  /\ store = EmptyStore
  /\ origin = EmptyStore
  /\ now = 0
  /\ redisDown = FALSE
  /\ restaurants = InitRestaurants
  /\ foodScores = InitFoodScores
  /\ last = NoOperation
  /\ nreq = 0
  /\ arg \in {a \in [totalAnalyzed : 0..MaxAnalyzed,
                     positiveCount : 0..MaxAnalyzed,
                     negativeCount : 0..MaxAnalyzed] :
                a.positiveCount + a.negativeCount <= a.totalAnalyzed}

Summarize ==
  /\ nreq = 0
  /\ last' = [NoOperation EXCEPT
                !.op = "sentimentSummary",
                !.out.body =
                  JsRec(SentimentSummary(arg.totalAnalyzed, arg.positiveCount,
                                         arg.negativeCount))]
  /\ nreq' = 1
  /\ UNCHANGED <<store, origin, now, redisDown, restaurants, foodScores, arg>>

NextSentiment == Summarize

SpecSentiment == InitSentiment /\ [][NextSentiment]_vars

\* C33 (sentiment percentages): for totalAnalyzed > 0 and counts with
\* positiveCount + negativeCount <= totalAnalyzed, the three values of the
\* distribution are integers in 0..100 and sum to 100; for totalAnalyzed = 0
\* all three are 0.
C33_PercentagesSumTo100 ==
  last.op = "sentimentSummary" =>
    /\ arg.totalAnalyzed > 0 =>
         /\ last.out.body.r.distribution.positive \in 0..100
         /\ last.out.body.r.distribution.negative \in 0..100
         /\ last.out.body.r.distribution.neutral \in 0..100
         /\ last.out.body.r.distribution.positive
              + last.out.body.r.distribution.negative
              + last.out.body.r.distribution.neutral = 100
    /\ arg.totalAnalyzed = 0 =>
         last.out.body.r.distribution
           = [positive |-> 0, negative |-> 0, neutral |-> 0]

(***************************************************************************)
(* SpecIsland: the SearchIsland component of the web application.  `arg`   *)
(* holds the state of the component (the useState cells, the debounce      *)
(* timer, the requests in flight and the searches issued so far); an       *)
(* action is one event handler together with the render and the effect     *)
(* that follow it, or the arrival of one response.  A handler reads the    *)
(* state of the render it was created in; its updates are visible to the   *)
(* next render only.  HeroSearch handles its input with the same code.     *)
(***************************************************************************)
MaxIslandEvents == 4
MaxIslandPage == 3
PageSize == 12

Bu == <<"b", "u">>
Burger == <<"b", "u", "r", "g", "e", "r">>
Bulgur == <<"b", "u", "l", "g", "u", "r">>

\* The answer of the autocomplete endpoint for a text.
SuggestionsFor(val) == [restaurants |-> <<Burger>>, dishes |-> <<Bulgur>>]

IslandTexts == {<<>>, <<"b">>, Bu}

\* const params = new URLSearchParams(); ... of searchVenues, built from the
\* state of the render `c`.
IslandParams(c, currentPage) ==
  [q |-> IF c.query # <<>> THEN Some(c.query) ELSE None,
   cuisine |-> c.selectedCuisines,
   price_range |-> c.priceRange,
   min_score |-> IF c.minScore > 0 THEN Some(c.minScore) ELSE None,
   sort_by |-> c.sortBy,
   page |-> currentPage,
   limit |-> PageSize]

\* searchVenues(resetPage) called by a handler of the render `c`; `a` is the
\* state with the updates the handler has made so far.
searchVenues(a, c, resetPage, cause, selected) ==
  [a EXCEPT !.loading = TRUE, !.showSuggestions = FALSE,
            !.page = IF resetPage THEN 1 ELSE @,
            !.issued = Append(@, [params |->
                                    IslandParams(c, IF resetPage THEN 1
                                                    ELSE c.page),
                                  cause |-> cause, selected |-> selected]),
            !.pending = @ \cup {Len(a.issued) + 1}]

\* The dependencies of the effect.
EffectDeps(a) ==
  <<a.page, a.selectedCuisines, a.priceRange, a.minScore, a.sortBy>>

\* The render after a handler and its effect: useEffect(() => searchVenues(),
\* [page, selectedCuisines, priceRange, minScore, sortBy]).
Rendered(c, a, cause) ==
  IF EffectDeps(a) # EffectDeps(c)
  THEN searchVenues(a, a, FALSE, cause, None)
  ELSE a

Mounted ==
  [query |-> <<>>, suggestions |-> None, showSuggestions |-> FALSE,
   results |-> 0, loading |-> FALSE, page |-> 1, selectedCuisines |-> <<>>,
   priceRange |-> None, minScore |-> 0, sortBy |-> "score_desc",
   timer |-> None, autocompletes |-> {}, issued |-> <<>>, pending |-> {},
   answered |-> {}, shown |-> 0]

InitIsland ==
  /\ store = EmptyStore
  /\ origin = EmptyStore
  /\ now = 0
  /\ redisDown = FALSE
  /\ restaurants = InitRestaurants
  /\ foodScores = InitFoodScores
  /\ last = NoOperation
  /\ nreq = 0
  /\ arg = searchVenues(Mounted, Mounted, FALSE, "mount", None)

\* One event of the component: `a` is the state after it.
IslandEvent(op, input, a) ==
  /\ nreq < MaxIslandEvents
  /\ arg' = a
  /\ last' = [NoOperation EXCEPT !.op = op, !.input = input,
                                 !.at = Len(arg.issued)]
  /\ nreq' = nreq + 1
  /\ UNCHANGED <<store, origin, now, redisDown, restaurants, foodScores>>

\* handleInputChange
HandleInputChange(val) ==
  /\ val # arg.query
  /\ IslandEvent("handleInputChange", val,
       IF Len(val) > 1
       THEN [arg EXCEPT !.query = val, !.timer = Some(val)]
       ELSE [arg EXCEPT !.query = val, !.timer = None,
                        !.showSuggestions = FALSE])

\* The debounce timer fires: the autocomplete request is sent.
DebounceFires ==
  /\ IsSome(arg.timer)
  /\ IslandEvent("setTimeout", Val(arg.timer),
       [arg EXCEPT !.timer = None,
                   !.autocompletes = @ \cup {Val(arg.timer)}])

\* The answer to an autocomplete request arrives.
AutocompleteArrives(val, ok) ==
  /\ val \in arg.autocompletes
  /\ IslandEvent("autocomplete", val,
       IF ok
       THEN [arg EXCEPT !.autocompletes = @ \ {val},
                        !.suggestions = Some(SuggestionsFor(val)),
                        !.showSuggestions = TRUE]
       ELSE [arg EXCEPT !.autocompletes = @ \ {val}])

\* handleClickOutside
ClickOutside ==
  /\ arg.showSuggestions
  /\ IslandEvent("handleClickOutside", <<>>,
                 [arg EXCEPT !.showSuggestions = FALSE])

\* onClick of a suggestion: setQuery(name); searchVenues(true)
SelectSuggestion(name) ==
  /\ arg.showSuggestions /\ IsSome(arg.suggestions)
  /\ name \in Range(Val(arg.suggestions).restaurants)
              \cup Range(Val(arg.suggestions).dishes)
  /\ IslandEvent("selectSuggestion", name,
       Rendered(arg,
                searchVenues([arg EXCEPT !.query = name], arg, TRUE, "select",
                             Some(name)),
                "reset"))

\* handleKeyDown with Enter, and the Ara button: searchVenues(true)
Submit ==
  IslandEvent("handleKeyDown", <<>>,
    Rendered(arg, searchVenues(arg, arg, TRUE, "submit", None), "reset"))

\* onToggle of a cuisine chip
ToggleCuisine(c) ==
  IslandEvent("onToggle", c,
    Rendered(arg,
             [arg EXCEPT !.selectedCuisines =
                IF c \in Range(@) THEN SelectSeq(@, LAMBDA i : i # c)
                ELSE Append(@, c)],
             "filter"))

\* onClick of a price button
TogglePrice(p) ==
  IslandEvent("setPriceRange", p,
    Rendered(arg,
             [arg EXCEPT !.priceRange = IF @ = Some(p) THEN None ELSE Some(p)],
             "filter"))

\* onChange of the minimum score slider
SlideMinScore(v) ==
  /\ v # arg.minScore
  /\ IslandEvent("setMinScore", v,
       Rendered(arg, [arg EXCEPT !.minScore = v], "filter"))

\* onChange of the sort select
SelectSort(sort) ==
  /\ sort # arg.sortBy
  /\ IslandEvent("setSortBy", sort,
       Rendered(arg, [arg EXCEPT !.sortBy = sort], "filter"))

\* The Onceki button
PreviousPage ==
  /\ arg.results > 0 /\ arg.page # 1 /\ ~arg.loading
  /\ IslandEvent("previousPage", <<>>,
       Rendered(arg, [arg EXCEPT !.page = IF @ - 1 > 1 THEN @ - 1 ELSE 1],
                "page"))

\* The Sonraki button
NextPage ==
  /\ arg.results > 0 /\ ~(arg.results < PageSize) /\ ~arg.loading
  /\ arg.page < MaxIslandPage
  /\ IslandEvent("nextPage", <<>>,
       Rendered(arg, [arg EXCEPT !.page = @ + 1], "page"))

\* The answer to search number i arrives: with rows, or as a failure.
SearchArrives(i, ok, rows) ==
  /\ i \in arg.pending
  /\ IslandEvent("search", <<i>>,
       [arg EXCEPT !.pending = @ \ {i}, !.answered = @ \cup {i},
                   !.results = IF ok THEN rows ELSE 0,
                   !.shown = i, !.loading = FALSE])

NextIsland ==
  \/ \E val \in IslandTexts : HandleInputChange(val)
  \/ DebounceFires
  \/ \E val \in {Bu}, ok \in BOOLEAN : AutocompleteArrives(val, ok)
  \/ ClickOutside
  \/ \E name \in {Burger, Bulgur} : SelectSuggestion(name)
  \/ Submit
  \/ \E c \in {"Kebap"} : ToggleCuisine(c)
  \/ \E p \in {2} : TogglePrice(p)
  \/ \E v \in {0, 5} : SlideMinScore(v)
  \/ \E sort \in {"score_desc", "price_asc"} : SelectSort(sort)
  \/ PreviousPage
  \/ NextPage
  \/ \E i \in 1..(MaxIslandEvents + 2), ok \in BOOLEAN, rows \in {1, PageSize} :
       SearchArrives(i, ok, rows)

SpecIsland == InitIsland /\ [][NextIsland]_vars

\* C34 (filters reset the page): every search issued because a filter
\* changed asks for page 1.
C34_FilterResetsPage ==
  \A i \in 1..Len(arg.issued) :
    arg.issued[i].cause = "filter" => arg.issued[i].params.page = 1

\* C35 (search for the selected suggestion): the selection of a suggestion
\* issues a search whose q is the name of the suggestion.
C35_SearchesSelectedName ==
  last.op = "selectSuggestion" =>
    \E i \in (last.at + 1)..Len(arg.issued) :
      arg.issued[i].params.q = Some(last.input)

\* C36 (dropdown needs 2 characters): the suggestion dropdown is not open
\* while the input holds fewer than 2 characters.
C36_DropdownNeedsTwo ==
  (arg.showSuggestions /\ IsSome(arg.suggestions)) => Len(arg.query) >= 2

\* C37 (latest search wins): the results shown are never those of a search
\* issued before one whose answer has arrived.
C37_LatestSearchShown ==
  \A i \in arg.answered : arg.shown >= i

(***************************************************************************)
(* SpecReconnect: the connection of the Redis client.  The client library  *)
(* calls retryStrategy with the number of the attempt each time the        *)
(* connection closes, waits for the delay returned and connects again; a   *)
(* null ends the reconnecting, a connection that succeeds resets the       *)
(* number.  `arg` holds the status, the number of the attempt, the delays  *)
(* returned since the last connection was lost and the number of times the *)
(* connection came back.                                                   *)
(***************************************************************************)
MaxReconnects == 5

\* A strategy that never gives up.
retryStrategy_Forever(times) == Some(Min(times * 200, 5000))

\* retryStrategy(times)
retryStrategy(times) ==
  IF times > 10 THEN None ELSE Some(Min(times * 200, 5000))

InitReconnect ==
  /\ store = EmptyStore
  /\ origin = EmptyStore
  /\ now = 0
  /\ redisDown = FALSE
  /\ restaurants = InitRestaurants
  /\ foodScores = InitFoodScores
  /\ last = NoOperation
  /\ nreq = 0
  /\ arg = [status |-> "ready", retryAttempts |-> 0, delays |-> <<>>]

\* The "close" event: the strategy is asked for the delay of the next
\* attempt.
Closed(a) ==
  Bind(retryStrategy(a.retryAttempts + 1), LAMBDA delay :
    IF IsSome(delay)
    THEN [status |-> "reconnecting", retryAttempts |-> a.retryAttempts + 1,
          delays |-> Append(a.delays, Val(delay))]
    ELSE [status |-> "end", retryAttempts |-> a.retryAttempts + 1,
          delays |-> a.delays])

\* An established connection is lost.
ConnectionLost ==
  /\ arg.status = "ready"
  /\ arg' = Closed(arg)
  /\ redisDown' = TRUE
  /\ UNCHANGED <<store, origin, now, restaurants, foodScores, last, nreq>>

\* The delay has passed: the client connects again.
DelayPasses ==
  /\ arg.status = "reconnecting"
  /\ arg' = [arg EXCEPT !.status = "connecting"]
  /\ UNCHANGED <<store, origin, now, redisDown, restaurants, foodScores, last,
                 nreq>>

\* The attempt to connect fails.
ReconnectFails ==
  /\ arg.status = "connecting"
  /\ arg' = Closed(arg)
  /\ UNCHANGED <<store, origin, now, redisDown, restaurants, foodScores, last,
                 nreq>>

\* The attempt to connect succeeds.
ReconnectSucceeds ==
  /\ arg.status = "connecting"
  /\ nreq < MaxReconnects
  /\ arg' = [status |-> "ready", retryAttempts |-> 0, delays |-> <<>>]
  /\ redisDown' = FALSE
  /\ nreq' = nreq + 1
  /\ UNCHANGED <<store, origin, now, restaurants, foodScores, last>>

NextReconnect ==
  \/ ConnectionLost
  \/ DelayPasses
  \/ ReconnectFails
  \/ ReconnectSucceeds

SpecReconnect == InitReconnect /\ [][NextReconnect]_vars

\* C38 (bounded reconnection): the delay of reconnect attempt n is
\* min(200 * n, 5000) ms for n <= 10, so the delays since the connection was
\* lost are non-decreasing and at most 5000 ms; no delay is returned for an
\* attempt above 10, so at most 10 retries are made before the client stops.
C38_ReconnectBounded ==
  /\ Len(arg.delays) <= 10
  /\ \A n \in 1..Len(arg.delays) :
       /\ arg.delays[n] = IF 200 * n < 5000 THEN 200 * n ELSE 5000
       /\ arg.delays[n] <= 5000
       /\ n > 1 => arg.delays[n - 1] <= arg.delays[n]
  /\ arg.status \in {"reconnecting", "connecting"}
       => arg.retryAttempts = Len(arg.delays)
  /\ arg.status = "end" <=> arg.retryAttempts > 10

\* The client has stopped after ten retries, the last after 2000 ms.
C38_Witness ==
  /\ arg.status = "end"
  /\ Len(arg.delays) = 10
  /\ arg.delays[10] = 2000

(***************************************************************************)
(* SpecSweep: cacheDeletePattern call by call.  Entries are stored, then   *)
(* one call of the helper runs: each SCAN and each DEL is a step, between  *)
(* which the backend may go away and come back.  `arg` holds the call in   *)
(* progress: its pattern, the keyspace it started from, the walk order of  *)
(* the backend's cursor, the cursor, the batch to delete, the keys deleted *)
(* so far and the number of SCAN calls made.                               *)
(***************************************************************************)
MaxSweepOps == 4

\* while (true)
LoopAgain_Always(cursor) == TRUE

\* while (cursor !== "0")
LoopAgain(cursor) == cursor # 0

NoSweep ==
  [phase |-> "idle", pattern |-> "search", before |-> EmptyStore,
   slots |-> <<>>, cursor |-> 0, keys |-> {}, deleted |-> {}, scans |-> 0,
   caught |-> FALSE, raised |-> FALSE]

InitSweep ==
  /\ store = EmptyStore
  /\ origin = EmptyStore
  /\ now = 0
  /\ redisDown = FALSE
  /\ restaurants = InitRestaurants
  /\ foodScores = InitFoodScores
  /\ last = NoOperation
  /\ nreq = 0
  /\ arg = NoSweep

SweepStore(key) ==
  /\ arg.phase \in {"idle", "done"}
  /\ nreq < MaxSweepOps
  /\ key \notin DOMAIN store
  /\ \E r \in {cacheSet(store, key, JsStr("data"), ScanTtl(key), now,
                        redisDown)} :
       /\ store' = r.store
       /\ origin' = [k \in DOMAIN r.store |->
                       IF k \in DOMAIN origin THEN origin[k]
                       ELSE [op |-> "cacheSet", input |-> key, params |-> {},
                             body |-> JsStr("data"), at |-> now,
                             ttl |-> ScanTtl(key)]]
  /\ nreq' = nreq + 1
  /\ arg' = NoSweep
  /\ UNCHANGED <<now, redisDown, restaurants, foodScores, last>>

\* cacheDeletePattern(pattern) is called: let cursor = "0"
SweepStart(pattern) ==
  /\ arg.phase \in {"idle", "done"}
  /\ nreq < MaxSweepOps
  /\ arg' = [NoSweep EXCEPT !.phase = "scan", !.pattern = pattern,
                            !.before = store, !.slots = Slots(store)]
  /\ nreq' = nreq + 1
  /\ UNCHANGED <<store, origin, now, redisDown, restaurants, foodScores, last>>

\* The helper has returned: the catch block swallows what was raised.
Swept(a, thrown) ==
  [a EXCEPT !.phase = "done", !.caught = thrown, !.keys = {},
            !.raised = CatchSilently([raised |-> thrown,
                                      store |-> EmptyStore]).raised]

\* await redis.scan(cursor, "MATCH", pattern, "COUNT", 100)
SweepScan ==
  /\ arg.phase = "scan"
  /\ \E scanned \in {RedisScan(store, arg.slots, arg.cursor, arg.pattern)} :
       arg' = IF redisDown THEN Swept(arg, TRUE)
              ELSE IF scanned.keys # {}
              THEN [arg EXCEPT !.phase = "del", !.cursor = scanned.cursor,
                               !.keys = scanned.keys, !.scans = @ + 1]
              ELSE IF LoopAgain(scanned.cursor)
              THEN [arg EXCEPT !.cursor = scanned.cursor, !.scans = @ + 1]
              ELSE Swept([arg EXCEPT !.cursor = scanned.cursor,
                                     !.scans = @ + 1], FALSE)
  /\ UNCHANGED <<store, origin, now, redisDown, restaurants, foodScores, last,
                 nreq>>

\* await redis.del(...keys)
SweepDel ==
  /\ arg.phase = "del"
  /\ store' = IF redisDown THEN store ELSE RedisDel(store, arg.keys)
  /\ origin' = [k \in DOMAIN store' |-> origin[k]]
  /\ arg' = IF redisDown THEN Swept(arg, TRUE)
            ELSE IF LoopAgain(arg.cursor)
            THEN [arg EXCEPT !.phase = "scan", !.keys = {},
                             !.deleted = @ \cup arg.keys]
            ELSE Swept([arg EXCEPT !.deleted = @ \cup arg.keys], FALSE)
  /\ UNCHANGED <<now, redisDown, restaurants, foodScores, last, nreq>>

NextSweep ==
  \/ \E key \in ScanKeys : SweepStore(key)
  \/ \E pattern \in Patterns : SweepStart(pattern)
  \/ SweepScan
  \/ SweepDel
  \/ BackendFails
  \/ BackendRecovers

SpecSweep == InitSweep /\ [][NextSweep]_vars

\* The helper keeps running: its backend calls do return.
SpecSweepFair == SpecSweep /\ WF_vars(SweepScan) /\ WF_vars(SweepDel)

\* What a call of the helper has reached when it is over.
SweepOutcome ==
  /\ arg.phase \in {"scan", "del"} => ~arg.caught
  /\ arg.scans <= 1 \/ (arg.scans - 1) * ScanBatch < Len(arg.slots)
  /\ arg.phase = "done" =>
       /\ ~arg.raised
       /\ store = Without(arg.before, arg.deleted)
       /\ ~arg.caught =>
            /\ arg.cursor = 0
            /\ arg.scans * ScanBatch >= Len(arg.slots)
            /\ store = cacheDeletePattern(arg.before, arg.pattern, FALSE).store

\* C39 (pattern delete terminates): a call of cacheDeletePattern that has
\* started ends; it ends without an error when the backend returns cursor
\* "0", having made one SCAN per batch and deleted every matching key, and
\* it ends at the first SCAN or DEL that raises, returning normally with
\* the keys not yet deleted still in place.
C39_SweepTerminates ==
  /\ []SweepOutcome
  /\ (arg.phase \in {"scan", "del"}) ~> (arg.phase = "done")

\* A call stopped by a failing backend after its first batch, with a
\* matching key left.
C39_Witness ==
  /\ arg.phase = "done"
  /\ arg.caught
  /\ arg.deleted # {}
  /\ \E k \in DOMAIN store : MatchesPattern(k, arg.pattern)

\* ---------------------------------------------------------------------------
\* run_pipeline.sh: invocations of the NLP pipeline runner.
\*
\* arg = [pc |-> position of every invocation, lock |-> pid in LOCK_FILE
\* (NoLock when the file is absent), recordsPid |-> whether the launched
\* pipeline writes its pid to LOCK_FILE].  The runner only reads and removes
\* LOCK_FILE and never writes it; the only possible writer is the process it
\* launches, so both kinds of pipeline are considered.
\* ---------------------------------------------------------------------------
MaxRunners == 3

Runners == 1..MaxRunners

NoLock == 0

\* kill -0 "${LOCK_PID}": the process named by the lock file is alive.
LockHolderAlive(a) == a.lock # NoLock /\ a.pc[a.lock] = "running"

InitRunners ==
  /\ store = EmptyStore
  /\ origin = EmptyStore
  /\ now = 0
  /\ redisDown = FALSE
  /\ restaurants = InitRestaurants
  /\ foodScores = InitFoodScores
  /\ last = NoOperation
  /\ nreq = 0
  /\ \E w \in BOOLEAN :
       arg = [pc |-> [r \in Runners |-> "idle"], lock |-> NoLock,
              recordsPid |-> w]

\* Lock kontrolu: exit 1 when LOCK_FILE names a live process, remove a stale
\* LOCK_FILE, go on otherwise.
LockCheck(r) ==
  /\ arg.pc[r] = "idle"
  /\ arg' = IF LockHolderAlive(arg)
            THEN [arg EXCEPT !.pc[r] = "refused"]
            ELSE [arg EXCEPT !.pc[r] = "checked", !.lock = NoLock]
  /\ UNCHANGED <<store, origin, now, redisDown, restaurants, foodScores,
                 last, nreq>>

\* Pipeline calistir: python3 nlp_batch_pipeline.py is launched.
PipelineStart(r) ==
  /\ arg.pc[r] = "checked"
  /\ arg' = [arg EXCEPT !.pc[r] = "running",
                        !.lock = IF arg.recordsPid THEN r ELSE @]
  /\ UNCHANGED <<store, origin, now, redisDown, restaurants, foodScores,
                 last, nreq>>

\* The pipeline exits; it removes its own LOCK_FILE or leaves it behind.
PipelineExit(r) ==
  /\ arg.pc[r] = "running"
  /\ \E removes \in BOOLEAN :
       arg' = [arg EXCEPT !.pc[r] = "exited",
                          !.lock = IF removes /\ @ = r THEN NoLock ELSE @]
  /\ UNCHANGED <<store, origin, now, redisDown, restaurants, foodScores,
                 last, nreq>>

NextRunners ==
  \/ \E r \in Runners : LockCheck(r)
  \/ \E r \in Runners : PipelineStart(r)
  \/ \E r \in Runners : PipelineExit(r)

SpecRunners == InitRunners /\ [][NextRunners]_vars

\* C40 (mutual exclusion of pipeline runs): at most one invocation's pipeline
\* is running at any time.
C40_OnePipelineAtATime ==
  Cardinality({r \in Runners : arg.pc[r] = "running"}) <= 1

\* The same for pipelines that record their pid in LOCK_FILE when launched.
C40_OneRecordingPipeline ==
  arg.recordsPid => Cardinality({r \in Runners : arg.pc[r] = "running"}) <= 1

====
